---------------------------- MODULE Spec2Model ----------------------------
(***************************************************************************)
(* A model of the exploration agent of ai-web-tester:                      *)
(*   smart_exploration_agent.py  SmartExplorationAgent                     *)
(*   browser_tool.py             PlaywrightBrowserTool                     *)
(* The browser (Playwright) and the language model are the environment:    *)
(* every call into them answers with a value drawn from a small set or     *)
(* raises.  Strings are TLA+ strings; substring tests are computed.        *)
(***************************************************************************)
EXTENDS Integers, Sequences, FiniteSets, TLC

(***************************************************************************)
(* Strings: Python's  `sub in s`  and  s.lower().                          *)
(***************************************************************************)
Contains(s, sub) ==
    \E i \in 1..(Len(s) - Len(sub) + 1) : SubSeq(s, i, i + Len(sub) - 1) = sub

LowerChar(c) ==
    CASE c = "A" -> "a" [] c = "B" -> "b" [] c = "C" -> "c" [] c = "D" -> "d"
      [] c = "E" -> "e" [] c = "F" -> "f" [] c = "G" -> "g" [] c = "H" -> "h"
      [] c = "I" -> "i" [] c = "J" -> "j" [] c = "K" -> "k" [] c = "L" -> "l"
      [] c = "M" -> "m" [] c = "N" -> "n" [] c = "O" -> "o" [] c = "P" -> "p"
      [] c = "Q" -> "q" [] c = "R" -> "r" [] c = "S" -> "s" [] c = "T" -> "t"
      [] c = "U" -> "u" [] c = "V" -> "v" [] c = "W" -> "w" [] c = "X" -> "x"
      [] c = "Y" -> "y" [] c = "Z" -> "z" [] OTHER -> c

RECURSIVE Lower(_)
Lower(s) ==
    IF s = "" THEN ""
    ELSE LowerChar(SubSeq(s, 1, 1)) \o Lower(SubSeq(s, 2, Len(s)))

\* any(keyword in text for keyword in keywords)
AnyIn(keywords, text) == \E k \in keywords : Contains(text, k)

\* ' '.join(list)
RECURSIVE Join(_)
Join(list) ==
    IF list = << >> THEN ""
    ELSE IF Len(list) = 1 THEN list[1]
    ELSE list[1] \o " " \o Join(Tail(list))

\* list[:n]
Take(list, n) == SubSeq(list, 1, IF Len(list) < n THEN Len(list) ELSE n)

Range(f) == {f[i] : i \in DOMAIN f}

\* Python's None
None == "None"

(***************************************************************************)
(* _create_user_personas: the three personas, in list order.               *)
(***************************************************************************)
user_personas ==
    << [name |-> "regular_user",   email_prefix |-> "testuser",
        first_name |-> "John",      last_name |-> "Doe",
        age |-> "25",               phone |-> "+1234567890",
        address |-> "123 Main St",  city |-> "New York",
        country |-> "USA",          company |-> "Test Corp",
        behavior |-> "cautious"],
       [name |-> "power_user",     email_prefix |-> "poweruser",
        first_name |-> "Jane",      last_name |-> "Smith",
        age |-> "35",               phone |-> "+1987654321",
        address |-> "456 Oak Ave",  city |-> "San Francisco",
        country |-> "USA",          company |-> "Tech Solutions",
        behavior |-> "aggressive"],
       \* the Cyrillic values of the source are written in Latin letters
       [name |-> "edge_case_user", email_prefix |-> "edgeuser",
        first_name |-> "Aleksandr", last_name |-> "O'Connor-Smith",
        age |-> "99",               phone |-> "+7-800-555-0199",
        address |-> "Ulitsa Pushkina, dom Kolotushkina", city |-> "Moskva",
        country |-> "Rossiya",      company |-> "OOO 'Test & Ko'",
        behavior |-> "boundary_testing"] >>

(***************************************************************************)
(* _classify_form_purpose: the keyword rules on the lowercased form text,  *)
(* then the placeholder rule, then the field analysis.                     *)
(***************************************************************************)
registration_keywords ==
    { "sign up", "register", "create account", "join", "get started",
      "create your account", "become a member", "start your journey",
      "join us", "create profile", "new account", "registration",
      "create a password", "create password", "birthdate", "birth date",
      "date of birth", "age verification" }

login_keywords ==
    { "sign in", "login", "log in", "enter", "access account",
      "welcome back", "member login", "user login", "enter password" }

input_types(inputs)        == [i \in DOMAIN inputs |-> Lower(inputs[i].type)]
input_names(inputs)        == [i \in DOMAIN inputs |-> Lower(inputs[i].name)]
input_placeholders(inputs) == [i \in DOMAIN inputs |-> Lower(inputs[i].placeholder)]

all_input_text(inputs) ==
    Lower(Join(input_names(inputs) \o input_placeholders(inputs)))

\* a variant that does not count the fields
registration_indicators_no_count(inputs, text_lower) ==
    \/ Contains(all_input_text(inputs), "confirm")
    \/ Contains(all_input_text(inputs), "first")
    \/ Contains(all_input_text(inputs), "last")
    \/ Contains(all_input_text(inputs), "name")
    \/ Contains(all_input_text(inputs), "phone")
    \/ Contains(all_input_text(inputs), "birth")
    \/ "date" \in Range(input_types(inputs))
    \/ Contains(text_lower, "agree")
    \/ Contains(text_lower, "terms")

registration_indicators(inputs, text_lower) ==
    \/ Contains(all_input_text(inputs), "confirm")
    \/ Contains(all_input_text(inputs), "first")
    \/ Contains(all_input_text(inputs), "last")
    \/ Contains(all_input_text(inputs), "name")
    \/ Contains(all_input_text(inputs), "phone")
    \/ Contains(all_input_text(inputs), "birth")
    \/ "date" \in Range(input_types(inputs))
    \/ Contains(text_lower, "agree")
    \/ Contains(text_lower, "terms")
    \/ Len(inputs) > 2

\* a variant that takes every form with email and no password as a subscription
subscription_context_any(text_lower) == TRUE

\* any(keyword in text_lower for keyword in ['subscribe', 'newsletter', 'updates'])
subscription_context(text_lower) ==
    AnyIn({"subscribe", "newsletter", "updates"}, text_lower)

\* a variant that tests the login keywords first
keyword_label_login_first(text_lower) ==
    IF AnyIn(login_keywords, text_lower) THEN "login"
    ELSE IF AnyIn(registration_keywords, text_lower) THEN "registration"
    ELSE IF AnyIn({"contact", "message", "email us"}, text_lower) THEN "contact"
    ELSE IF AnyIn({"search"}, text_lower) THEN "search"
    ELSE IF AnyIn({"subscribe", "newsletter"}, text_lower) THEN "subscription"
    ELSE None

\* the if/elif chain on the text in and around the form; None when no
\* keyword is in the text
keyword_label(text_lower) ==
    IF AnyIn(registration_keywords, text_lower) THEN "registration"
    ELSE IF AnyIn(login_keywords, text_lower) THEN "login"
    ELSE IF AnyIn({"contact", "message", "email us"}, text_lower) THEN "contact"
    ELSE IF AnyIn({"search"}, text_lower) THEN "search"
    ELSE IF AnyIn({"subscribe", "newsletter"}, text_lower) THEN "subscription"
    ELSE None

\* a variant that looks for the phrases in the field names
creates_password_by_name(inputs) ==
    \E i \in DOMAIN inputs :
       AnyIn({"create a password", "create password"}, input_names(inputs)[i])

\* the loop over input_placeholders: one of them has one of the two phrases
creates_password(inputs) ==
    \E i \in DOMAIN inputs :
       AnyIn({"create a password", "create password"}, input_placeholders(inputs)[i])

_classify_form_purpose(form) ==
    LET text_lower == Lower(form.form_text \o " " \o form.nearby_text)
        inputs     == form.inputs
    IN  IF keyword_label(text_lower) # None THEN keyword_label(text_lower)
        ELSE IF creates_password(inputs) THEN "registration"
        ELSE IF /\ "password" \in Range(input_types(inputs))
                /\ \/ "email" \in Range(input_types(inputs))
                   \/ Contains(all_input_text(inputs), "email")
             THEN IF registration_indicators(inputs, text_lower)
                  THEN "registration" ELSE "login"
        ELSE IF /\ "email" \in Range(input_types(inputs))
                /\ "password" \notin Range(input_types(inputs))
                /\ subscription_context(text_lower)
             THEN "subscription"
        ELSE "unknown"


(***************************************************************************)
(* _match_field_to_data: the ordered keyword rules on the field hints.     *)
(* test_data is a function from slot names to strings; dict.get gives None *)
(* for a slot the data set does not have.                                  *)
(***************************************************************************)
Get(d, k) == IF k \in DOMAIN d THEN d[k] ELSE None

\* a variant that takes every password field for the primary password
password_slot_plain(field_hints) == "password"

\* a variant that reads a key the data sets do not have
password_slot_misnamed(field_hints) ==
    IF Contains(field_hints, "confirm") \/ Contains(field_hints, "repeat")
    THEN "confirm_password" ELSE "password"

\* the password rule: the confirm/repeat check, then the plain password
password_slot(field_hints) ==
    IF Contains(field_hints, "confirm") \/ Contains(field_hints, "repeat")
    THEN "password_confirm" ELSE "password"

\* a variant that tries the generic name rule before the first-name and
\* last-name rules
field_rule_name_first(field_name, field_type, placeholder) ==
    LET field_hints == Lower(field_name \o " " \o field_type \o " " \o placeholder)
    IN  IF AnyIn({"email", "e-mail"}, field_hints) THEN "email"
        ELSE IF AnyIn({"password", "pass"}, field_hints) THEN password_slot(field_hints)
        ELSE IF AnyIn({"username", "user", "login"}, field_hints) THEN "username"
        ELSE IF AnyIn({"name"}, field_hints) /\ ~Contains(field_hints, "user") THEN "name"
        ELSE IF AnyIn({"first", "fname"}, field_hints) THEN "first_name"
        ELSE IF AnyIn({"last", "lname", "surname"}, field_hints) THEN "last_name"
        ELSE IF AnyIn({"phone", "tel"}, field_hints) THEN "phone"
        ELSE IF AnyIn({"address"}, field_hints) THEN "address"
        ELSE IF AnyIn({"city"}, field_hints) THEN "city"
        ELSE IF AnyIn({"country"}, field_hints) THEN "country"
        ELSE IF AnyIn({"company", "organization"}, field_hints) THEN "company"
        ELSE IF AnyIn({"age"}, field_hints) THEN "age"
        ELSE IF AnyIn({"zip", "postal"}, field_hints) THEN "zip"
        ELSE IF field_type = "checkbox" THEN None
        ELSE IF field_type = "text" /\ field_name = "" THEN "Test input"
        ELSE None

\* the key of test_data the first matching rule reads; "Test input" for the
\* rule that returns this text, None when the result is None
field_rule(field_name, field_type, placeholder) ==
    LET field_hints == Lower(field_name \o " " \o field_type \o " " \o placeholder)
    IN  IF AnyIn({"email", "e-mail"}, field_hints) THEN "email"
        ELSE IF AnyIn({"password", "pass"}, field_hints) THEN password_slot(field_hints)
        ELSE IF AnyIn({"username", "user", "login"}, field_hints) THEN "username"
        ELSE IF AnyIn({"first", "fname"}, field_hints) THEN "first_name"
        ELSE IF AnyIn({"last", "lname", "surname"}, field_hints) THEN "last_name"
        ELSE IF AnyIn({"name"}, field_hints) /\ ~Contains(field_hints, "user") THEN "name"
        ELSE IF AnyIn({"phone", "tel"}, field_hints) THEN "phone"
        ELSE IF AnyIn({"address"}, field_hints) THEN "address"
        ELSE IF AnyIn({"city"}, field_hints) THEN "city"
        ELSE IF AnyIn({"country"}, field_hints) THEN "country"
        ELSE IF AnyIn({"company", "organization"}, field_hints) THEN "company"
        ELSE IF AnyIn({"age"}, field_hints) THEN "age"
        ELSE IF AnyIn({"zip", "postal"}, field_hints) THEN "zip"
        ELSE IF field_type = "checkbox" THEN None
        ELSE IF field_type = "text" /\ field_name = "" THEN "Test input"
        ELSE None

_match_field_to_data(field_name, field_type, placeholder, test_data) ==
    LET rule == field_rule(field_name, field_type, placeholder)
    IN  IF rule \in { None, "Test input" } THEN rule ELSE Get(test_data, rule)

\* the calls of _match_field_to_data in one _fill_form_intelligently call: the
\* arguments and the rule that matched
matched_fields(inputs) ==
    [ i \in DOMAIN inputs |->
        [ field_name  |-> Lower(inputs[i].name),
          field_type  |-> Lower(inputs[i].type),
          placeholder |-> Lower(inputs[i].placeholder),
          rule        |-> field_rule(Lower(inputs[i].name), Lower(inputs[i].type),
                                     Lower(inputs[i].placeholder)) ] ]

\* Python truthiness of an Optional[str]
Truthy(value) == value # None /\ value # ""

(***************************************************************************)
(* _generate_test_data: timestamp is int(time.time()), random_suffix the   *)
(* six characters drawn by random.choices.                                 *)
(***************************************************************************)
_generate_test_data(persona, timestamp, random_suffix) ==
    [ email      |-> persona.email_prefix \o "." \o ToString(timestamp) \o "."
                       \o random_suffix \o "@testmail.com",
      username   |-> persona.email_prefix \o "_" \o random_suffix,
      password   |-> "TestPass123!@#",
      password_confirm |-> "TestPass123!@#",
      first_name |-> persona.first_name,
      last_name  |-> persona.last_name,
      name       |-> persona.first_name \o " " \o persona.last_name,
      full_name  |-> persona.first_name \o " " \o persona.last_name,
      age        |-> persona.age,
      phone      |-> persona.phone,
      address    |-> persona.address,
      city       |-> persona.city,
      country    |-> persona.country,
      company    |-> persona.company,
      zip        |-> "12345",
      postal_code |-> "12345",
      state      |-> "NY",
      region     |-> "New York" ]

_generate_contact_data(timestamp) ==
    [ name    |-> "Test User",
      email   |-> "testcontact." \o ToString(timestamp) \o "@example.com",
      subject |-> "Test inquiry from automated testing",
      message |-> "This is a test message generated by automated testing system. Please ignore.",
      phone   |-> "+1234567890",
      company |-> "Test Company" ]

search_terms == {"test", "example", "demo", "sample", "product"}

_generate_search_data(t1, t2, t3) == [ search |-> t1, query |-> t2, q |-> t3 ]

_generate_subscription_data(timestamp) ==
    [ email      |-> "testsub." \o ToString(timestamp) \o "@example.com",
      newsletter |-> "true" ]

(***************************************************************************)
(* The candidate selectors of a trigger button.                            *)
(***************************************************************************)
\* str.split(): the whitespace-separated words of s
RECURSIVE SplitFrom(_, _, _)
SplitFrom(s, i, word) ==
    IF i > Len(s) THEN (IF word = "" THEN << >> ELSE << word >>)
    ELSE IF SubSeq(s, i, i) = " "
         THEN (IF word = "" THEN << >> ELSE << word >>) \o SplitFrom(s, i + 1, "")
         ELSE SplitFrom(s, i + 1, word \o SubSeq(s, i, i))

Split(s) == SplitFrom(s, 1, "")

text_selectors(text) ==
    << "button:has-text('" \o text \o "')",
       "[role='button']:has-text('" \o text \o "')",
       "div:has-text('" \o text \o "')",
       "a:has-text('" \o text \o "')",
       "span:has-text('" \o text \o "')" >>

generic_selectors ==
    << "[data-testid*='signup']", "[data-testid*='register']",
       "[aria-label*='sign up']", "[aria-label*='register']",
       "button[class*='signup']", "button[class*='register']",
       ".signup-btn", ".register-btn", "#signup", "#register" >>

class_selectors(className) ==
    LET classes == Take(Split(className), 3)
    IN  [i \in DOMAIN classes |-> "." \o classes[i]]

\* _search_for_auth_links: the selectors tried for one signup button
button_selectors(button_info) ==
    (IF button_info.text # "" THEN text_selectors(button_info.text) ELSE << >>)
    \o (IF button_info.dataTestId # ""
        THEN << "[data-testid='" \o button_info.dataTestId \o "']" >> ELSE << >>)
    \o (IF button_info.ariaLabel # ""
        THEN << "[aria-label='" \o button_info.ariaLabel \o "']" >> ELSE << >>)
    \o (IF button_info.className # "" THEN class_selectors(button_info.className)
        ELSE << >>)
    \o generic_selectors

\* _attempt_registration: the selectors tried for the modal trigger
trigger_selectors(trigger_button) ==
    (IF Truthy(trigger_button) THEN text_selectors(trigger_button) ELSE << >>)
    \o generic_selectors

\* _attempt_registration: the selectors tried for the mode switch
switch_selectors(switch_button) ==
    (IF Truthy(switch_button)
     THEN << "button:has-text('" \o switch_button \o "')",
             "a:has-text('" \o switch_button \o "')",
             "div:has-text('" \o switch_button \o "')",
             "span:has-text('" \o switch_button \o "')" >>
     ELSE << >>)
    \o << "[data-testid*='switch']", "[data-testid*='signup']",
          "[data-testid*='register']", "button[class*='switch']", ".switch-btn" >>

\* a variant that looks at visibility first
click_strategy_by_visibility(is_visible, is_enabled) ==
    IF is_visible THEN "normal"
    ELSE IF is_enabled THEN "forced"
    ELSE "scripted"

\* a variant without the forced click
click_strategy_unforced(is_visible, is_enabled) ==
    IF is_visible /\ is_enabled THEN "normal" ELSE "scripted"

\* the click chosen for an element from its state after the scroll re-check
click_strategy(is_visible, is_enabled) ==
    IF is_visible /\ is_enabled THEN "normal"
    ELSE IF is_enabled THEN "forced"
    ELSE "scripted"

(***************************************************************************)
(* The environment.  The site under test and the faults of the browser and *)
(* of the language model are inputs of a run, drawn in Init; given them    *)
(* the program is deterministic.                                           *)
(*   site   : what the page holds and how its elements answer              *)
(*   faults : the calls that raise, as << call, occurrence >>              *)
(***************************************************************************)
MaxForms    == 2   \* forms on the main page
MaxElements == 2   \* elements one selector matches
MaxFaults   == 1   \* calls that raise in one run

BSeq(S, n) == UNION { [1..k -> S] : k \in 0..n }

Field(name, type, placeholder) ==
    [name |-> name, type |-> type, placeholder |-> placeholder]

RegForm ==
    [ form_text |-> "Create Account", nearby_text |-> "", method |-> "post",
      inputs |-> << Field("password", "password", ""),
                    Field("confirm_password", "password", ""),
                    Field("email", "email", "") >> ]

LoginForm ==
    [ form_text |-> "Sign in", nearby_text |-> "", method |-> "post",
      inputs |-> << Field("email", "email", ""),
                    Field("password", "password", "") >> ]

PlainForm ==
    [ form_text |-> "Go", nearby_text |-> "", method |-> "get",
      inputs |-> << Field("q", "text", "") >> ]

FormPool == { RegForm, LoginForm, PlainForm }

TextButton ==
    [ text |-> "Sign Up", tagName |-> "BUTTON", className |-> "btn signup-btn",
      dataTestId |-> "", ariaLabel |-> "", id |-> "", href |-> "" ]

\* a signup control without text: an icon with an aria-label
IconButton ==
    [ text |-> "", tagName |-> "BUTTON", className |-> "",
      dataTestId |-> "signup-icon", ariaLabel |-> "sign up", id |-> "", href |-> "" ]

RegisterLink == [href |-> "https://site.test/register", text |-> "Register"]

SignUpSwitch == [text |-> "Sign up", tagName |-> "BUTTON"]
JoinSwitch   == [text |-> "Join now", tagName |-> "A"]

Url == "https://site.test/"

\* how one element answers: its state can be read or not; visible and enabled;
\* what the re-check after scroll_into_view_if_needed gives; whether a click works
Element(state, visible, enabled, rescroll, click) ==
    [ state |-> state, visible |-> visible, enabled |-> enabled,
      rescroll |-> rescroll, click |-> click ]

\* (rescroll: the re-check finds it "visible" or "hidden", or the scroll or the
\* re-check raises; it is read only for an element that is not visible)
Elements ==
    { Element("ok", TRUE, e, "visible", c) : e \in BOOLEAN, c \in {"ok", "raises"} }
    \cup { Element("ok", FALSE, e, r, c) :
              e \in BOOLEAN,
              r \in {"visible", "hidden", "scroll_raises", "recheck_raises"},
              c \in {"ok", "raises"} }
    \cup { Element("raises", FALSE, FALSE, "hidden", "raises") }

\* what query_selector_all(selector) gives
Matches(elements) == [raises |-> FALSE, elements |-> elements]
QueryRaises       == [raises |-> TRUE,  elements |-> << >>]

Clickable == Element("ok", TRUE, TRUE, "visible", "ok")


(***************************************************************************)
(* State.                                                                  *)
(***************************************************************************)
VARIABLES
    site, faults,        \* the inputs of the run
    entry_idx,           \* the entry the depth prompt is reading
    pc,                  \* position in deep_explore_website and its callees
    outcome,             \* "running", "returned" (a report) or "raised"
    session,             \* browser_tool: "none", "active" or "closed"
    page_url,            \* browser_tool.page.url
    now,                 \* the clock, in milliseconds
    rand_idx,            \* draws taken from the random source
    main_page,           \* the PageInfo of stage 1
    exploration_report,  \* the report dict
    auth_forms,          \* _discover_auth_forms: auth_forms
    stage_log,           \* the stages begun and returned, in order
    \* _search_for_auth_links
    additional_forms,    \* its auth_forms list
    auth_links, signup_buttons, btn_idx,
    modal_forms, mf_idx, mode_switches, sw_idx, link_idx,
    search_flow,         \* the steps taken for each signup button and link
    \* the resolver (the selector and element loops)
    selectors, sel_idx, queried, elements, el_idx, button_clicked, r_ctx,
    el_rec,              \* what was done to the element processed last
    r_queries,           \* selectors queried in this resolution
    r_matched,           \* elements the queries matched
    r_tried,             \* elements tried
    r_after,             \* queries and tries made after a click had succeeded
    r_result,            \* "pending", or what the resolution reported
    \* _attempt_registration
    persona_idx, registration_forms, rf_idx, test_data, fill_result,
    submit_result,
    registration_result, \* what the call returns: << >> for None, or << dict >>
    flow,                \* the steps taken for the current form, in order
    touched,             \* the current call has used the browser
    attempt_calls,       \* the personas _attempt_registration was called for
    \* stages 4 and 6
    form_idx, form_results, flow_idx, user_flows,
    matched,             \* the fields the last fill call matched to test data
    visits               \* the navigations of _trace_user_flow: url and time

vars_env    == << site, faults >>
vars_run    == << pc, outcome, session, page_url, now, rand_idx, main_page,
                  exploration_report, auth_forms, stage_log >>
vars_search == << additional_forms, auth_links, signup_buttons, btn_idx,
                  modal_forms, mf_idx, mode_switches, sw_idx, link_idx,
                  search_flow >>
vars_res    == << selectors, sel_idx, queried, elements, el_idx, button_clicked,
                  r_ctx, el_rec, r_queries, r_matched, r_tried, r_after,
                  r_result >>
vars_reg    == << persona_idx, registration_forms, rf_idx, test_data, fill_result,
                  submit_result, registration_result, flow, touched, attempt_calls >>
vars_late   == << form_idx, form_results, flow_idx, user_flows, matched, visits >>
vars        == << vars_env, entry_idx, vars_run, vars_search, vars_res, vars_reg,
                  vars_late >>

NoElement ==
    [ tried |-> FALSE, read |-> FALSE, vis1 |-> FALSE, enabled |-> FALSE,
      scroll |-> "none", scrolls |-> 0, clicks |-> << >>, ok |-> FALSE ]

EmptyReport ==
    [ url |-> Url, exploration_depth |-> 3,
      registration_attempts |-> << >>, form_interactions |-> << >>,
      hidden_functionality |-> << >>, user_flows |-> << >>,
      security_findings |-> << >>, performance_insights |-> << >>,
      discovered_pages |-> << >>, accessibility_issues |-> << >>,
      \* the two keys the run adds: None while absent
      main_page_analysis |-> None, auth_forms_discovered |-> None ]

\* a PageInfo; status_code is << >> for None, or << the status >>
NoPage ==
    [ url |-> None, title |-> "", content |-> "", links |-> << >>,
      images |-> << >>, forms |-> << >>, meta_tags |-> << >>,
      status_code |-> << >>, errors |-> << >> ]

InitRun ==
    /\ pc = IF site.call_depth = << >> THEN "prompt" ELSE "call"
    /\ entry_idx = 1
    /\ outcome = "running"
    /\ session = "none"
    /\ page_url = "about:blank"
    /\ now = 0
    /\ rand_idx = 0
    /\ main_page = NoPage
    /\ exploration_report = EmptyReport
    /\ auth_forms = << >>
    /\ stage_log = << >>
    /\ additional_forms = << >>
    /\ auth_links = << >>
    /\ signup_buttons = << >>
    /\ btn_idx = 0
    /\ modal_forms = << >>
    /\ mf_idx = 0
    /\ mode_switches = << >>
    /\ sw_idx = 0
    /\ link_idx = 0
    /\ search_flow = << >>
    /\ selectors = << >>
    /\ sel_idx = 0
    /\ queried = FALSE
    /\ elements = << >>
    /\ el_idx = 0
    /\ button_clicked = FALSE
    /\ r_ctx = None
    /\ el_rec = NoElement
    /\ r_queries = 0
    /\ r_matched = 0
    /\ r_tried = 0
    /\ r_after = 0
    /\ r_result = "pending"
    /\ persona_idx = 0
    /\ registration_forms = << >>
    /\ rf_idx = 0
    /\ test_data = None
    /\ fill_result = None
    /\ submit_result = None
    /\ registration_result = << >>
    /\ flow = << >>
    /\ touched = FALSE
    /\ attempt_calls = << >>
    /\ form_idx = 0
    /\ form_results = << >>
    /\ flow_idx = 0
    /\ matched = << >>
    /\ user_flows = << >>
    /\ visits = << >>

\* the call raises in this run
Fault(call, k) == << call, k >> \in faults

\* a step of _attempt_registration on the form it is working on
Step(name, ok) == [ step |-> name, form |-> rf_idx, ok |-> ok ]

\* a step of _search_for_auth_links on the signup button it is working on
Seen(name, ok) == [ step |-> name, button |-> btn_idx, ok |-> ok ]

Begin(stage)  == Append(stage_log, << stage, "begin" >>)
Return(stage) == Append(stage_log, << stage, "return" >>)

\* a variant with the third and fourth stage exchanged
stage_entry_swapped ==
    << "s1_nav", "s2_static", "s4_begin", "s3_begin", "s5", "s6_begin", "s7", "s8" >>

\* the stages of deep_explore_website, by the position each starts at
stage_entry ==
    << "s1_nav", "s2_static", "s3_begin", "s4_begin", "s5", "s6_begin", "s7", "s8" >>

\* where the run goes when stage k has returned
Continue(k) == IF k < Len(stage_entry) THEN stage_entry[k + 1] ELSE "save"

\* a variant in which the exception leaves without the browser being closed
Escapes_leaking ==
    /\ pc' = "done"
    /\ outcome' = "raised"
    /\ UNCHANGED session

\* an exception leaves the `async with` block: __aexit__ closes the browser
\* and the exception reaches the caller of deep_explore_website
Escapes ==
    /\ pc' = "done"
    /\ outcome' = "raised"
    /\ session' = "closed"

(***************************************************************************)
(* smart_demo.get_exploration_depth: the prompt that is read until an      *)
(* entry is accepted; the accepted depth is passed to                      *)
(* deep_explore_website as max_depth.                                      *)
(***************************************************************************)
\* 1 <= depth <= 5
depth_in_range(depth) == 1 <= depth /\ depth <= 5

\* one pass of the loop on what the user typed: strip(), the default for an
\* empty entry, int() (a sign and decimal digits; anything else is a
\* ValueError) and the range check
get_exploration_depth(entry) ==
    LET RECURSIVE strip(_)
        strip(s) ==
            IF s # "" /\ SubSeq(s, 1, 1) = " " THEN strip(SubSeq(s, 2, Len(s)))
            ELSE IF s # "" /\ SubSeq(s, Len(s), Len(s)) = " "
            THEN strip(SubSeq(s, 1, Len(s) - 1))
            ELSE s
        digit(c) ==
            CASE c = "0" -> 0 [] c = "1" -> 1 [] c = "2" -> 2 [] c = "3" -> 3
              [] c = "4" -> 4 [] c = "5" -> 5 [] c = "6" -> 6 [] c = "7" -> 7
              [] c = "8" -> 8 [] c = "9" -> 9 [] OTHER -> -1
        RECURSIVE digits(_)
        digits(s) == s = "" \/ (digit(SubSeq(s, 1, 1)) >= 0 /\ digits(SubSeq(s, 2, Len(s))))
        RECURSIVE value(_, _)
        value(s, acc) ==
            IF s = "" THEN acc
            ELSE value(SubSeq(s, 2, Len(s)), 10 * acc + digit(SubSeq(s, 1, 1)))
        depth  == strip(entry)
        signed == depth # "" /\ SubSeq(depth, 1, 1) \in { "-", "+" }
        body   == IF signed THEN SubSeq(depth, 2, Len(depth)) ELSE depth
        number == IF signed /\ SubSeq(depth, 1, 1) = "-" THEN 0 - value(body, 0)
                  ELSE value(body, 0)
    IN  IF depth = "" THEN [ accepted |-> TRUE, depth |-> 3 ]
        ELSE IF body = "" \/ ~digits(body) THEN [ accepted |-> FALSE, depth |-> 0 ]
        ELSE IF depth_in_range(number) THEN [ accepted |-> TRUE, depth |-> number ]
        ELSE [ accepted |-> FALSE, depth |-> number ]

\* main: depth = get_exploration_depth(), then run_smart_exploration(url, depth),
\* which calls deep_explore_website(url, max_depth=depth); the report dict is
\* built with "exploration_depth": max_depth.  When the user types nothing
\* more the prompt is interrupted and the program exits.
GetDepth ==
    /\ pc = "prompt"
    /\ IF entry_idx > Len(site.depth_entries)
       THEN /\ pc' = "done"
            /\ outcome' = "exit"
            /\ UNCHANGED << entry_idx, exploration_report >>
       ELSE IF get_exploration_depth(site.depth_entries[entry_idx]).accepted
       THEN /\ pc' = "start"
            /\ exploration_report' =
                  [exploration_report EXCEPT !.exploration_depth =
                      get_exploration_depth(site.depth_entries[entry_idx]).depth]
            /\ UNCHANGED << entry_idx, outcome >>
       ELSE /\ entry_idx' = entry_idx + 1
            /\ UNCHANGED << pc, outcome, exploration_report >>
    /\ UNCHANGED << session, page_url, now, rand_idx, main_page, auth_forms, stage_log >>
    /\ UNCHANGED << vars_env, vars_search, vars_res, vars_reg, vars_late >>

\* deep_explore_website(url, max_depth) called by other code than smart_demo:
\* the first statements build the report dict with "exploration_depth":
\* max_depth
DeepExplore ==
    /\ pc = "call"
    /\ exploration_report' =
          [exploration_report EXCEPT !.exploration_depth = site.call_depth[1]]
    /\ pc' = "start"
    /\ UNCHANGED << outcome, session, page_url, now, rand_idx, main_page, auth_forms,
                    stage_log >>
    /\ UNCHANGED << vars_env, entry_idx, vars_search, vars_res, vars_reg, vars_late >>

(***************************************************************************)
(* deep_explore_website: entering `async with self.browser_tool`.          *)
(***************************************************************************)
Start ==
    /\ pc = "start"
    /\ IF Fault("start", 0)
       THEN \* start() raises: __aenter__ fails, the block is never entered
            /\ session' = "none"
            /\ pc' = "done"
            /\ outcome' = "raised"
       ELSE \* start() launches the browser and opens the one page
            /\ session' = "active"
            /\ pc' = stage_entry[1]
            /\ outcome' = outcome
    /\ UNCHANGED << page_url, now, rand_idx, main_page, exploration_report,
                    auth_forms, stage_log >>
    /\ UNCHANGED << vars_env, entry_idx, vars_search, vars_res, vars_reg, vars_late >>

(***************************************************************************)
(* Stage 1: navigate_to_page, then _analyze_page_deeply.                   *)
(***************************************************************************)
\* a variant that lets the failure of goto reach the caller
navigate_to_page_propagating(has_page, url, raises) ==
    IF ~has_page \/ raises
    THEN [ raised |-> TRUE, info |-> NoPage ]
    ELSE [ raised |-> FALSE,
           info |-> [ url |-> url, title |-> "Test site", content |-> "Welcome",
                      links |-> site.links, images |-> << "logo.png" >>,
                      forms |-> site.forms, meta_tags |-> << "viewport" >>,
                      status_code |-> << 200 >>, errors |-> << >> ] ]

\* browser_tool.navigate_to_page: without a page it raises; what goto, the
\* network-idle wait or the extraction raises is caught and an empty PageInfo
\* with the message in errors (a fixed prefix and str(e)) is returned
navigate_to_page(has_page, url, raises) ==
    IF ~has_page
    THEN [ raised |-> TRUE, info |-> NoPage ]
    ELSE IF raises
    THEN [ raised |-> FALSE,
           info |-> [ url |-> url, title |-> "", content |-> "", links |-> << >>,
                      images |-> << >>, forms |-> << >>, meta_tags |-> << >>,
                      status_code |-> << >>,
                      errors |-> << "load error: goto" >> ] ]
    ELSE [ raised |-> FALSE,
           info |-> [ url |-> url, title |-> "Test site", content |-> "Welcome",
                      links |-> site.links, images |-> << "logo.png" >>,
                      forms |-> site.forms, meta_tags |-> << "viewport" >>,
                      status_code |-> << 200 >>, errors |-> << >> ] ]

Stage1Navigate ==
    /\ pc = "s1_nav"
    /\ stage_log' = Begin(1)
    /\ LET got == navigate_to_page(session = "active", Url, Fault("goto", 0)) IN
       IF got.raised
       THEN /\ Escapes
            /\ UNCHANGED << main_page, page_url >>
       ELSE /\ main_page' = got.info
            /\ page_url' = IF Fault("goto", 0) THEN page_url ELSE Url
            /\ pc' = "s1_analyze"
            /\ UNCHANGED << outcome, session >>
    /\ UNCHANGED << now, rand_idx, exploration_report, auth_forms >>
    /\ UNCHANGED << vars_env, entry_idx, vars_search, vars_res, vars_reg, vars_late >>

Stage1Analyze ==
    /\ pc = "s1_analyze"
    /\ IF Fault("llm", 0)
       THEN \* llm.invoke raises: nothing in _analyze_page_deeply catches it
            /\ Escapes
            /\ UNCHANGED << exploration_report, stage_log >>
       ELSE \* json.loads parses the answer; on JSONDecodeError the answer
            \* itself is returned, marked as text
            /\ exploration_report' =
                  [exploration_report EXCEPT !.main_page_analysis =
                      IF site.llm = "json" THEN [ format |-> "json" ]
                      ELSE [ analysis |-> "The site is a shop with a signup form.",
                             format |-> "text" ]]
            /\ stage_log' = Return(1)
            /\ pc' = Continue(1)
            /\ UNCHANGED << outcome, session >>
    /\ UNCHANGED << page_url, now, rand_idx, main_page, auth_forms >>
    /\ UNCHANGED << vars_env, entry_idx, vars_search, vars_res, vars_reg, vars_late >>

(***************************************************************************)
(* Stage 2: _discover_auth_forms and _search_for_auth_links.               *)
(***************************************************************************)
AuthForm(form, purpose, source_url, confidence, trigger_button, switch_button) ==
    [ form |-> form, purpose |-> purpose, source_url |-> source_url,
      confidence |-> confidence, trigger_button |-> trigger_button,
      switch_button |-> switch_button ]

\* the entries appended for the forms whose purpose is one of `purposes`
\* (confidence in hundredths)
RECURSIVE classified_forms(_, _, _, _, _)
classified_forms(forms, purposes, source_url, confidence, trigger_button) ==
    IF forms = << >> THEN << >>
    ELSE (IF _classify_form_purpose(Head(forms)) \in purposes
          THEN << AuthForm(Head(forms), _classify_form_purpose(Head(forms)),
                           source_url, confidence, trigger_button, None) >>
          ELSE << >>)
         \o classified_forms(Tail(forms), purposes, source_url, confidence,
                             trigger_button)

\* _discover_auth_forms, the loop over page_info.forms
Stage2Static ==
    /\ pc = "s2_static"
    /\ stage_log' = Begin(2)
    /\ auth_forms' = classified_forms(main_page.forms,
                        {"registration", "login", "signup", "signin"}, None, 80, None)
    /\ pc' = "s2_eval"
    /\ UNCHANGED << outcome, session, page_url, now, rand_idx, main_page,
                    exploration_report >>
    /\ UNCHANGED << vars_env, entry_idx, vars_search, vars_res, vars_reg, vars_late >>

\* _search_for_auth_links: the two page.evaluate calls that collect the auth
\* links and the signup buttons (and _debug_page_elements when there is no
\* button, which only prints)
Stage2Eval ==
    /\ pc = "s2_eval"
    /\ additional_forms' = << >>
    /\ IF Fault("eval_links", 0)
       THEN \* the outer except: the list so far is returned
            /\ pc' = "s2_return"
            /\ UNCHANGED << auth_links, signup_buttons, btn_idx >>
       ELSE /\ auth_links' = site.auth_links
            /\ signup_buttons' = site.signup_buttons
            /\ btn_idx' = 1
            /\ pc' = "s2_button"
    /\ UNCHANGED << outcome, session, page_url, now, rand_idx, main_page,
                    exploration_report, auth_forms, stage_log >>
    /\ UNCHANGED << modal_forms, mf_idx, mode_switches, sw_idx, link_idx,
                    search_flow >>
    /\ UNCHANGED << vars_env, entry_idx, vars_res, vars_reg, vars_late >>

\* a resolution starts: the loops over `candidates`
StartResolve(candidates, ctx) ==
    /\ selectors' = candidates
    /\ sel_idx' = 1
    /\ queried' = FALSE
    /\ elements' = << >>
    /\ el_idx' = 0
    /\ button_clicked' = FALSE
    /\ r_ctx' = ctx
    /\ el_rec' = NoElement
    /\ r_queries' = 0
    /\ r_matched' = 0
    /\ r_tried' = 0
    /\ r_after' = 0
    /\ r_result' = "pending"
    /\ pc' = "resolve"

\* the head of `for button_info in signup_buttons[:2]`
Stage2Button ==
    /\ pc = "s2_button"
    /\ IF btn_idx <= Len(Take(signup_buttons, 2))
       THEN /\ StartResolve(button_selectors(signup_buttons[btn_idx]), "discover")
            /\ UNCHANGED link_idx
       ELSE /\ link_idx' = 1
            /\ pc' = "s2_link"
            /\ UNCHANGED vars_res
    /\ UNCHANGED << outcome, session, page_url, now, rand_idx, main_page,
                    exploration_report, auth_forms, stage_log >>
    /\ UNCHANGED << additional_forms, auth_links, signup_buttons, btn_idx,
                    modal_forms, mf_idx, mode_switches, sw_idx, search_flow >>
    /\ UNCHANGED << vars_env, entry_idx, vars_reg, vars_late >>

(***************************************************************************)
(* The resolver: `for selector in selectors` / `for element in elements`,  *)
(* the same code in _search_for_auth_links (the signup button) and in      *)
(* _attempt_registration (the trigger and the mode switch).                *)
(***************************************************************************)
\* query_selector_all(selector) in the loop `ctx`
Answer(ctx, selector) ==
    IF selector \in DOMAIN site.dom[ctx] THEN site.dom[ctx][selector]
    ELSE Matches(<< >>)

\* a variant that keeps the first reading of is_visible
visible_unchecked(is_visible, rescroll) == is_visible

\* is_visible after `if not is_visible:` scroll, wait, read again (an exception
\* in there is passed over and leaves the first reading)
visible_after_scroll(is_visible, rescroll) ==
    IF is_visible THEN TRUE ELSE rescroll = "visible"

\* what the body of `for element in elements` does to one element
element_outcome(e) ==
    IF e.state = "raises"
    THEN \* is_visible() or is_enabled() raises: no click, the next element
         [NoElement EXCEPT !.tried = TRUE]
    ELSE [ tried   |-> TRUE,
           read    |-> TRUE,
           vis1    |-> e.visible,
           enabled |-> e.enabled,
           scroll  |-> IF e.visible THEN "none" ELSE e.rescroll,
           scrolls |-> IF e.visible THEN 0 ELSE 1,
           clicks  |-> << click_strategy(visible_after_scroll(e.visible, e.rescroll),
                                         e.enabled) >>,
           ok      |-> e.click = "ok" ]

\* the time one element takes: the wait after a scroll that did not raise
element_wait(e) ==
    IF e.state = "ok" /\ ~e.visible /\ e.rescroll # "scroll_raises" THEN 1000 ELSE 0

\* a variant that gives up after the first selector
resolution_done_early(clicked, sel, n) == clicked \/ sel > 1

\* both loops have ended: `break` after a click, or no selector is left
resolution_done(clicked, sel, n) == clicked \/ sel > n

Resolving ==
    /\ pc = "resolve"
    /\ ~resolution_done(button_clicked, sel_idx, Len(selectors))

ResolveQuery ==
    /\ Resolving
    /\ ~queried
    /\ LET answer == Answer(r_ctx, selectors[sel_idx]) IN
         /\ r_queries' = r_queries + 1
         /\ r_after' = IF button_clicked THEN r_after + 1 ELSE r_after
         /\ IF answer.raises
            THEN \* except selector_error: continue
                 /\ sel_idx' = sel_idx + 1
                 /\ UNCHANGED << queried, elements, el_idx, r_matched >>
            ELSE /\ queried' = TRUE
                 /\ elements' = answer.elements
                 /\ el_idx' = 1
                 /\ r_matched' = r_matched + Len(answer.elements)
                 /\ UNCHANGED sel_idx
    /\ touched' = TRUE
    /\ UNCHANGED << selectors, button_clicked, r_ctx, el_rec, r_tried, r_result >>
    /\ UNCHANGED << persona_idx, registration_forms, rf_idx, test_data, fill_result,
                    submit_result, registration_result, flow, attempt_calls >>
    /\ UNCHANGED << vars_env, entry_idx, vars_run, vars_search, vars_late >>

ResolveElement ==
    /\ Resolving
    /\ queried
    /\ el_idx <= Len(elements)
    /\ el_rec' = element_outcome(elements[el_idx])
    /\ now' = now + element_wait(elements[el_idx])
    /\ r_tried' = r_tried + 1
    /\ r_after' = IF button_clicked THEN r_after + 1 ELSE r_after
    /\ IF el_rec'.read /\ el_rec'.ok
       THEN \* button_clicked = True; break
            /\ button_clicked' = TRUE
            /\ UNCHANGED el_idx
       ELSE \* except click_error: continue
            /\ el_idx' = el_idx + 1
            /\ UNCHANGED button_clicked
    /\ UNCHANGED << selectors, sel_idx, queried, elements, r_ctx, r_queries, r_matched,
                    r_result >>
    /\ UNCHANGED << pc, outcome, session, page_url, rand_idx, main_page,
                    exploration_report, auth_forms, stage_log >>
    /\ UNCHANGED << vars_env, entry_idx, vars_search, vars_reg, vars_late >>

\* the element loop has ended without a click: the next selector
ResolveAdvance ==
    /\ Resolving
    /\ queried
    /\ el_idx > Len(elements)
    /\ sel_idx' = sel_idx + 1
    /\ queried' = FALSE
    /\ UNCHANGED << selectors, elements, el_idx, button_clicked, r_ctx, el_rec,
                    r_queries, r_matched, r_tried, r_after, r_result >>
    /\ UNCHANGED << vars_env, entry_idx, vars_run, vars_search, vars_reg, vars_late >>

\* a variant that goes on with the form whether or not the trigger was clicked
after_trigger_unchecked(clicked) == "s3_settle"

\* `if not button_clicked: continue`, else the wait for the modal
after_trigger(clicked) == IF clicked THEN "s3_settle" ELSE "s3_form"

\* a variant that gives the form up when the switch was not clicked
after_switch_required(clicked) ==
    IF clicked THEN [ next |-> "s3_fill", wait |-> 2000 ]
    ELSE [ next |-> "s3_form", wait |-> 0 ]

\* `if not switch_clicked` only prints; else wait_for_timeout(2000); then the
\* test data and the fill
after_switch(clicked) ==
    [ next |-> "s3_fill", wait |-> IF clicked THEN 2000 ELSE 0 ]

\* after the loops: what each caller does with button_clicked
ResolveReturn ==
    /\ pc = "resolve"
    /\ resolution_done(button_clicked, sel_idx, Len(selectors))
    /\ CASE r_ctx = "discover" ->
              \* not clicked: _debug_page_elements, continue
              /\ pc' = IF button_clicked THEN "s2_modal" ELSE "s2_button"
              /\ btn_idx' = IF button_clicked THEN btn_idx ELSE btn_idx + 1
              /\ search_flow' = Append(search_flow, Seen("trigger", button_clicked))
              /\ UNCHANGED << now, rf_idx, flow >>
         [] r_ctx = "trigger" ->
              /\ pc' = after_trigger(button_clicked)
              /\ rf_idx' = IF pc' = "s3_form" THEN rf_idx + 1 ELSE rf_idx
              /\ flow' = Append(flow, Step("trigger", button_clicked))
              /\ UNCHANGED << now, btn_idx, search_flow >>
         [] r_ctx = "switch" ->
              \* clicked: wait_for_timeout(2000); not clicked: the form may
              \* already be in registration mode
              /\ pc' = after_switch(button_clicked).next
              /\ now' = now + after_switch(button_clicked).wait
              /\ rf_idx' = IF pc' = "s3_form" THEN rf_idx + 1 ELSE rf_idx
              /\ flow' = Append(flow, Step("switch", button_clicked))
              /\ UNCHANGED << btn_idx, search_flow >>
    /\ UNCHANGED << outcome, session, page_url, rand_idx, main_page,
                    exploration_report, auth_forms, stage_log >>
    /\ UNCHANGED << additional_forms, auth_links, signup_buttons,
                    modal_forms, mf_idx, mode_switches, sw_idx, link_idx >>
    /\ UNCHANGED << persona_idx, registration_forms, test_data, fill_result,
                    submit_result, registration_result, touched, attempt_calls >>
    /\ r_result' = IF button_clicked THEN "clicked" ELSE "failed"
    /\ UNCHANGED << selectors, sel_idx, queried, elements, el_idx, button_clicked,
                    r_ctx, el_rec, r_queries, r_matched, r_tried, r_after >>
    /\ UNCHANGED << vars_env, entry_idx, vars_late >>

(***************************************************************************)
(* _search_for_auth_links after a click: the forms of the modal, the mode  *)
(* switch, the close attempt; then the auth links.                         *)
(***************************************************************************)
\* wait_for_timeout(3000), then the page.evaluate that lists the forms
Stage2Modal ==
    /\ pc = "s2_modal"
    /\ now' = now + 3000
    /\ search_flow' = search_flow \o << Seen("settle", TRUE),
                                        Seen("scan", ~Fault("modal_eval", btn_idx)) >>
    /\ IF Fault("modal_eval", btn_idx)
       THEN \* the except of this button: continue
            /\ btn_idx' = btn_idx + 1
            /\ pc' = "s2_button"
            /\ UNCHANGED << modal_forms, mf_idx >>
       ELSE /\ modal_forms' = site.modal_forms
            /\ mf_idx' = 1
            /\ pc' = "s2_mf"
            /\ UNCHANGED btn_idx
    /\ UNCHANGED << outcome, session, page_url, rand_idx, main_page,
                    exploration_report, auth_forms, stage_log >>
    /\ UNCHANGED << additional_forms, auth_links, signup_buttons, mode_switches,
                    sw_idx, link_idx >>
    /\ UNCHANGED << vars_env, entry_idx, vars_res, vars_reg, vars_late >>

\* any(f['purpose'] == 'login' for f in auth_forms
\*     if f.get('source_url') == 'modal_window')
has_modal_login(forms) ==
    \E i \in DOMAIN forms :
        forms[i].source_url = "modal_window" /\ forms[i].purpose = "login"

\* the head and the first statements of `for form in modal_forms`
Stage2ModalForm ==
    /\ pc = "s2_mf"
    /\ IF mf_idx > Len(modal_forms)
       THEN /\ btn_idx' = btn_idx + 1
            /\ pc' = "s2_button"
            /\ UNCHANGED additional_forms
       ELSE /\ additional_forms' =
                  additional_forms \o
                  classified_forms(<< modal_forms[mf_idx] >>, {"registration", "login"},
                                   "modal_window", 90, signup_buttons[btn_idx].text)
            /\ pc' = IF has_modal_login(additional_forms')
                     THEN "s2_switch_eval" ELSE "s2_close"
            /\ UNCHANGED btn_idx
    /\ UNCHANGED << outcome, session, page_url, now, rand_idx, main_page,
                    exploration_report, auth_forms, stage_log >>
    /\ UNCHANGED << auth_links, signup_buttons, modal_forms, mf_idx,
                    mode_switches, sw_idx, link_idx, search_flow >>
    /\ UNCHANGED << vars_env, entry_idx, vars_res, vars_reg, vars_late >>

\* the page.evaluate that lists the mode switches
Stage2SwitchEval ==
    /\ pc = "s2_switch_eval"
    /\ search_flow' = Append(search_flow,
                             Seen("switch_eval", ~Fault("switch_eval", btn_idx)))
    /\ IF Fault("switch_eval", btn_idx)
       THEN \* the except of this button: continue
            /\ btn_idx' = btn_idx + 1
            /\ pc' = "s2_button"
            /\ UNCHANGED << mode_switches, sw_idx >>
       ELSE /\ mode_switches' = site.mode_switches
            /\ sw_idx' = 1
            /\ pc' = "s2_switch"
            /\ UNCHANGED btn_idx
    /\ UNCHANGED << outcome, session, page_url, now, rand_idx, main_page,
                    exploration_report, auth_forms, stage_log >>
    /\ UNCHANGED << additional_forms, auth_links, signup_buttons, modal_forms,
                    mf_idx, link_idx >>
    /\ UNCHANGED << vars_env, entry_idx, vars_res, vars_reg, vars_late >>

\* the first of the forms classified registration, as a list of at most one
RECURSIVE first_registration(_)
first_registration(forms) ==
    IF forms = << >> THEN << >>
    ELSE IF _classify_form_purpose(Head(forms)) = "registration" THEN << Head(forms) >>
    ELSE first_registration(Tail(forms))

\* the entries appended after a switch: `for updated_form in updated_forms`
switched_entries(forms, trigger_button, switch_button) ==
    [ i \in DOMAIN first_registration(forms) |->
        AuthForm(first_registration(forms)[i], "registration", "modal_window", 95,
                 trigger_button, switch_button) ]

\* one iteration of `for switch in mode_switches`
Stage2Switch ==
    /\ pc = "s2_switch"
    /\ IF sw_idx > Len(mode_switches)
       THEN /\ pc' = "s2_close"
            /\ UNCHANGED << sw_idx, now, additional_forms, search_flow >>
       ELSE IF ~AnyIn({"sign up", "register", "create"}, Lower(mode_switches[sw_idx].text))
               \/ site.switch_el # "found"
               \/ Fault("switch_click", btn_idx)
               \/ Fault("switched_eval", btn_idx)
       THEN \* no keyword, no element, or an exception: the next switch
            /\ sw_idx' = sw_idx + 1
            /\ pc' = "s2_switch"
            /\ now' = IF AnyIn({"sign up", "register", "create"},
                               Lower(mode_switches[sw_idx].text))
                         /\ site.switch_el = "found"
                         /\ ~Fault("switch_click", btn_idx)
                      THEN now + 2000 ELSE now
            /\ search_flow' =
                  IF AnyIn({"sign up", "register", "create"},
                           Lower(mode_switches[sw_idx].text))
                  THEN Append(search_flow,
                              Seen("switch", site.switch_el = "found"
                                             /\ ~Fault("switch_click", btn_idx)))
                  ELSE search_flow
            /\ UNCHANGED additional_forms
       ELSE \* click, wait_for_timeout(2000), the forms again, break
            /\ now' = now + 2000
            /\ search_flow' = Append(search_flow, Seen("switch", TRUE))
            /\ additional_forms' =
                  additional_forms \o
                  switched_entries(site.switched_forms, signup_buttons[btn_idx].text,
                                   mode_switches[sw_idx].text)
            /\ pc' = "s2_close"
            /\ UNCHANGED sw_idx
    /\ UNCHANGED << outcome, session, page_url, rand_idx, main_page,
                    exploration_report, auth_forms, stage_log >>
    /\ UNCHANGED << auth_links, signup_buttons, btn_idx, modal_forms, mf_idx,
                    mode_switches, link_idx >>
    /\ UNCHANGED << vars_env, entry_idx, vars_res, vars_reg, vars_late >>

\* a variant without the try/except around the close attempt
close_modal_raising(el, click_raises) ==
    [ clicked |-> el = "found",
      wait    |-> IF el = "found" /\ ~click_raises THEN 1000 ELSE 0,
      raised  |-> el = "raises" \/ (el = "found" /\ click_raises) ]

\* try: query_selector(close selectors); `if close_button:` click and
\* wait_for_timeout(1000); `except: pass`.  el is what query_selector gives
\* ("found", "absent", or "raises")
close_modal(el, click_raises) ==
    [ clicked |-> el = "found",
      wait    |-> IF el = "found" /\ ~click_raises THEN 1000 ELSE 0,
      raised  |-> FALSE ]

\* the close attempt: query_selector, click, wait_for_timeout(1000), with
\* every exception passed over; the time it takes
close_wait == close_modal(site.close_el, Fault("close_click", 0)).wait

\* the close attempt that ends the body of `for form in modal_forms`
Stage2Close ==
    /\ pc = "s2_close"
    /\ now' = now + close_wait
    /\ search_flow' = Append(search_flow, Seen("close", site.close_el = "found"))
    /\ IF close_modal(site.close_el, Fault("close_click", 0)).raised
       THEN \* the except of the button: `continue`
            btn_idx' = btn_idx + 1 /\ pc' = "s2_button" /\ mf_idx' = mf_idx
       ELSE btn_idx' = btn_idx /\ mf_idx' = mf_idx + 1 /\ pc' = "s2_mf"
    /\ UNCHANGED << outcome, session, page_url, rand_idx, main_page,
                    exploration_report, auth_forms, stage_log >>
    /\ UNCHANGED << additional_forms, auth_links, signup_buttons,
                    modal_forms, mode_switches, sw_idx, link_idx >>
    /\ UNCHANGED << vars_env, entry_idx, vars_res, vars_reg, vars_late >>

\* the forms of the page a link leads to
LinkForms(href) ==
    IF href \in DOMAIN site.link_forms THEN site.link_forms[href] ELSE << >>

\* one iteration of `for link in auth_links[:3]`
Stage2Link ==
    /\ pc = "s2_link"
    /\ IF link_idx > Len(Take(auth_links, 3))
       THEN /\ pc' = "s2_return"
            /\ UNCHANGED << link_idx, page_url, additional_forms, search_flow >>
       ELSE /\ link_idx' = link_idx + 1
            /\ pc' = "s2_link"
            /\ search_flow' = Append(search_flow,
                                     Seen("goto", ~Fault("link_goto", link_idx)))
            /\ IF Fault("link_goto", link_idx)
               THEN \* goto raises: continue
                    UNCHANGED << page_url, additional_forms >>
               ELSE IF Fault("link_wait", link_idx)
               THEN \* the wait for network idle times out: continue
                    /\ page_url' = auth_links[link_idx].href
                    /\ UNCHANGED additional_forms
               ELSE /\ page_url' = auth_links[link_idx].href
                    /\ additional_forms' =
                          additional_forms \o
                          classified_forms(LinkForms(auth_links[link_idx].href),
                                           {"registration", "login"},
                                           auth_links[link_idx].href, 90, None)
    /\ UNCHANGED << outcome, session, now, rand_idx, main_page,
                    exploration_report, auth_forms, stage_log >>
    /\ UNCHANGED << auth_links, signup_buttons, btn_idx, modal_forms, mf_idx,
                    mode_switches, sw_idx >>
    /\ UNCHANGED << vars_env, entry_idx, vars_res, vars_reg, vars_late >>

\* a variant that counts the forms of the main page only
discovered_count_static(forms) ==
    Len(SelectSeq(forms, LAMBDA f : f.source_url = None))

\* len(auth_forms)
discovered_count(forms) == Len(forms)

\* _search_for_auth_links returns; auth_forms.extend(additional_forms); back
\* in deep_explore_website the count is stored
Stage2Return ==
    /\ pc = "s2_return"
    /\ auth_forms' = auth_forms \o additional_forms
    /\ exploration_report' =
          [exploration_report EXCEPT !.auth_forms_discovered = discovered_count(auth_forms')]
    /\ stage_log' = Return(2)
    /\ pc' = Continue(2)
    /\ UNCHANGED << outcome, session, page_url, now, rand_idx, main_page >>
    /\ UNCHANGED << vars_env, entry_idx, vars_search, vars_res, vars_reg, vars_late >>

(***************************************************************************)
(* Stage 3: _attempt_registration for each persona.                        *)
(***************************************************************************)
Stage3Begin ==
    /\ pc = "s3_begin"
    /\ stage_log' = Begin(3)
    /\ persona_idx' = 1
    /\ pc' = "s3_persona"
    /\ UNCHANGED << outcome, session, page_url, now, rand_idx, main_page,
                    exploration_report, auth_forms >>
    /\ UNCHANGED << registration_forms, rf_idx, test_data, fill_result, submit_result,
                    registration_result, flow, touched, attempt_calls >>
    /\ UNCHANGED << vars_env, entry_idx, vars_search, vars_res, vars_late >>

\* a variant that stays at the same persona
same_persona(i) == i

\* `for persona in self.user_personas`: the persona after persona i
next_persona(i) == i + 1

\* the head of the persona loop and the first lines of _attempt_registration
Stage3Persona ==
    /\ pc = "s3_persona"
    /\ IF persona_idx > Len(user_personas)
       THEN /\ stage_log' = Return(3)
            /\ pc' = Continue(3)
            /\ UNCHANGED << registration_forms, rf_idx, registration_result, flow,
                            touched, attempt_calls >>
       ELSE /\ attempt_calls' = Append(attempt_calls, user_personas[persona_idx].name)
            /\ registration_forms' =
                  SelectSeq(auth_forms, LAMBDA f : f.purpose = "registration")
            /\ rf_idx' = 1
            /\ registration_result' = << >>
            /\ flow' = << >>
            /\ touched' = FALSE
            \* if not registration_forms: return None
            /\ pc' = IF registration_forms' = << >> THEN "s3_append" ELSE "s3_form"
            /\ UNCHANGED stage_log
    /\ UNCHANGED << outcome, session, page_url, now, rand_idx, main_page,
                    exploration_report, auth_forms >>
    /\ UNCHANGED << persona_idx, test_data, fill_result, submit_result >>
    /\ UNCHANGED << vars_env, entry_idx, vars_search, vars_res, vars_late >>

\* the head of `for form_data in registration_forms` and the branch on where
\* the form is
Stage3Form ==
    /\ pc = "s3_form"
    /\ IF rf_idx > Len(registration_forms)
       THEN \* return None
            /\ registration_result' = << >>
            /\ pc' = "s3_append"
            /\ UNCHANGED vars_res
       ELSE /\ UNCHANGED registration_result
            /\ IF registration_forms[rf_idx].source_url = "modal_window"
                  /\ Truthy(registration_forms[rf_idx].trigger_button)
               THEN StartResolve(trigger_selectors(registration_forms[rf_idx].trigger_button),
                                 "trigger")
               ELSE IF Truthy(registration_forms[rf_idx].source_url)
                       /\ registration_forms[rf_idx].source_url # "modal_window"
               THEN pc' = "s3_nav" /\ UNCHANGED vars_res
               ELSE pc' = "s3_fill" /\ UNCHANGED vars_res
    /\ UNCHANGED << outcome, session, page_url, now, rand_idx, main_page,
                    exploration_report, auth_forms, stage_log >>
    /\ UNCHANGED << persona_idx, registration_forms, rf_idx, test_data, fill_result,
                    submit_result, flow, touched, attempt_calls >>
    /\ UNCHANGED << vars_env, entry_idx, vars_search, vars_late >>

\* wait_for_timeout(3000) after the trigger click, then the switch if the
\* entry names one
Stage3Settle ==
    /\ pc = "s3_settle"
    /\ IF Fault("settle", persona_idx)
       THEN \* the wait raises (the page was closed): the except of this form
            /\ flow' = Append(flow, Step("settle", FALSE))
            /\ rf_idx' = rf_idx + 1
            /\ pc' = "s3_form"
            /\ UNCHANGED << now, vars_res >>
       ELSE /\ now' = now + 3000
            /\ flow' = Append(flow, Step("settle", TRUE))
            /\ UNCHANGED rf_idx
            /\ IF Truthy(registration_forms[rf_idx].switch_button)
               THEN StartResolve(switch_selectors(registration_forms[rf_idx].switch_button),
                                 "switch")
               ELSE pc' = "s3_fill" /\ UNCHANGED vars_res
    /\ UNCHANGED << outcome, session, page_url, rand_idx, main_page,
                    exploration_report, auth_forms, stage_log >>
    /\ UNCHANGED << persona_idx, registration_forms, test_data, fill_result,
                    submit_result, registration_result, touched, attempt_calls >>
    /\ UNCHANGED << vars_env, entry_idx, vars_search, vars_late >>

\* goto(source_url) and the wait for network idle
Stage3Nav ==
    /\ pc = "s3_nav"
    /\ touched' = TRUE
    /\ IF Fault("nav", persona_idx)
       THEN \* the except of this form: continue
            /\ rf_idx' = rf_idx + 1
            /\ pc' = "s3_form"
            /\ flow' = Append(flow, Step("goto", FALSE))
            /\ UNCHANGED page_url
       ELSE /\ page_url' = registration_forms[rf_idx].source_url
            /\ pc' = "s3_fill"
            /\ flow' = Append(flow, Step("goto", TRUE))
            /\ UNCHANGED rf_idx
    /\ UNCHANGED << outcome, session, now, rand_idx, main_page,
                    exploration_report, auth_forms, stage_log >>
    /\ UNCHANGED << persona_idx, registration_forms, test_data, fill_result,
                    submit_result, registration_result, attempt_calls >>
    /\ UNCHANGED << vars_env, entry_idx, vars_search, vars_res, vars_late >>

\* value[:20] + "..." if len(value) > 20 else value
preview(value) ==
    IF Len(value) > 20 THEN SubSeq(value, 1, 20) \o "..." ELSE value

\* a variant whose loop ends at the first field that raises
RECURSIVE fill_fields_stopping(_, _, _, _)
fill_fields_stopping(inputs, data, absent, raises) ==
    IF inputs = << >> THEN [ filled_fields |-> << >>, errors |-> << >> ]
    ELSE LET field_name  == Lower(Head(inputs).name)
             field_type  == Lower(Head(inputs).type)
             placeholder == Lower(Head(inputs).placeholder)
             value == _match_field_to_data(field_name, field_type, placeholder, data)
             selector == IF Head(inputs).name # "" THEN Head(inputs).name ELSE field_type
             rest  == fill_fields_stopping(Tail(inputs), data, absent, raises)
         IN  IF ~Truthy(value) THEN rest
             ELSE IF selector \in raises
             THEN [ filled_fields |-> << >>, errors |-> << field_name >> ]
             ELSE IF selector \in absent THEN rest
             ELSE [rest EXCEPT !.filled_fields =
                     << [field |-> field_name, type |-> field_type,
                         value |-> preview(value)] >> \o @]

\* the loop of _fill_form_intelligently over the inputs: a field of `absent` is
\* not on the page, fill raises for a field of `raises`
RECURSIVE fill_fields(_, _, _, _)
fill_fields(inputs, data, absent, raises) ==
    IF inputs = << >> THEN [ filled_fields |-> << >>, errors |-> << >> ]
    ELSE LET field_name  == Lower(Head(inputs).name)
             field_type  == Lower(Head(inputs).type)
             placeholder == Lower(Head(inputs).placeholder)
             value == _match_field_to_data(field_name, field_type, placeholder, data)
             selector == IF Head(inputs).name # "" THEN Head(inputs).name ELSE field_type
             rest  == fill_fields(Tail(inputs), data, absent, raises)
         IN  IF ~Truthy(value) THEN rest
             ELSE IF selector \in raises
             THEN [rest EXCEPT !.errors = << field_name >> \o @]
             ELSE IF selector \in absent THEN rest
             ELSE [rest EXCEPT !.filled_fields =
                     << [field |-> field_name, type |-> field_type,
                         value |-> preview(value)] >> \o @]

\* a variant that takes a fill without errors for a success
_fill_form_intelligently_lenient(form, data, absent, raises) ==
    [ success       |-> Len(fill_fields(form.inputs, data, absent, raises).errors) = 0,
      filled_fields |-> fill_fields(form.inputs, data, absent, raises).filled_fields,
      errors        |-> fill_fields(form.inputs, data, absent, raises).errors ]

_fill_form_intelligently(form, data, absent, raises) ==
    [ success       |-> Len(fill_fields(form.inputs, data, absent, raises).filled_fields) > 0,
      filled_fields |-> fill_fields(form.inputs, data, absent, raises).filled_fields,
      errors        |-> fill_fields(form.inputs, data, absent, raises).errors ]

\* int(time.time())
timestamp == now \div 1000

\* the i-th draw of the random source
Draw(i) == site.rand[(i % Len(site.rand)) + 1]

\* _generate_test_data and _fill_form_intelligently
Stage3Fill ==
    /\ pc = "s3_fill"
    /\ touched' = TRUE
    /\ test_data' = _generate_test_data(user_personas[persona_idx], timestamp,
                                        Draw(rand_idx))
    /\ rand_idx' = rand_idx + 1
    /\ fill_result' = _fill_form_intelligently(registration_forms[rf_idx].form, test_data',
                                               site.fill_absent, site.fill_raises)
    /\ matched' = matched_fields(registration_forms[rf_idx].form.inputs)
    /\ flow' = Append(flow, Step("fill", fill_result'.success))
    /\ IF fill_result'.success
       THEN pc' = "s3_submit" /\ UNCHANGED rf_idx
       ELSE pc' = "s3_form" /\ rf_idx' = rf_idx + 1
    /\ UNCHANGED << outcome, session, page_url, now, main_page,
                    exploration_report, auth_forms, stage_log >>
    /\ UNCHANGED << persona_idx, registration_forms, submit_result,
                    registration_result, attempt_calls >>
    /\ UNCHANGED << form_idx, form_results, flow_idx, user_flows, visits >>
    /\ UNCHANGED << vars_env, entry_idx, vars_search, vars_res >>

success_indicators == {"success", "welcome", "registered", "created", "thank you"}
error_indicators   == {"error", "invalid", "failed", "required", "already exists"}

\* a variant that takes a page without an error phrase for a success
_submit_form_safely_optimistic(button, raises, current_url, new_url, page_content) ==
    IF button = "raises" \/ (button = "found" /\ raises)
    THEN [ success |-> FALSE, error |-> "Form submission error" ]
    ELSE IF button = "absent"
    THEN [ success |-> FALSE, error |-> "Submit button not found" ]
    ELSE [ success |-> ~AnyIn(error_indicators, Lower(page_content)),
           url_changed |-> current_url # new_url,
           new_url |-> new_url,
           has_success_message |-> AnyIn(success_indicators, Lower(page_content)),
           has_error_message |-> AnyIn(error_indicators, Lower(page_content)),
           response_analysis |->
               IF AnyIn(success_indicators, Lower(page_content))
               THEN "Form submitted successfully"
               ELSE "Form submission may have failed" ]

\* _submit_form_safely: `button` is what query_selector gives for the submit
\* button, `raises` whether the click or page.content() raises
_submit_form_safely(button, raises, current_url, new_url, page_content) ==
    IF button = "raises" \/ (button = "found" /\ raises)
    THEN [ success |-> FALSE, error |-> "Form submission error" ]
    ELSE IF button = "absent"
    THEN [ success |-> FALSE, error |-> "Submit button not found" ]
    ELSE [ success |-> AnyIn(success_indicators, Lower(page_content))
                       /\ ~AnyIn(error_indicators, Lower(page_content)),
           url_changed |-> current_url # new_url,
           new_url |-> new_url,
           has_success_message |-> AnyIn(success_indicators, Lower(page_content)),
           has_error_message |-> AnyIn(error_indicators, Lower(page_content)),
           response_analysis |->
               IF AnyIn(success_indicators, Lower(page_content))
               THEN "Form submitted successfully"
               ELSE "Form submission may have failed" ]

\* the page after the submit click
SubmitUrl == IF site.submit.new_url = None THEN page_url ELSE site.submit.new_url

Stage3Submit ==
    /\ pc = "s3_submit"
    /\ submit_result' = _submit_form_safely(site.submit.button,
                                            Fault("submit", persona_idx),
                                            page_url, SubmitUrl, site.submit.content)
    /\ page_url' = IF site.submit.button = "found" /\ ~Fault("submit", persona_idx)
                   THEN SubmitUrl ELSE page_url
    /\ flow' = Append(flow, Step("submit", TRUE))
    /\ pc' = IF registration_forms[rf_idx].source_url = "modal_window"
             THEN "s3_close" ELSE "s3_record"
    /\ UNCHANGED << outcome, session, now, rand_idx, main_page,
                    exploration_report, auth_forms, stage_log >>
    /\ UNCHANGED << persona_idx, registration_forms, rf_idx, test_data, fill_result,
                    registration_result, touched, attempt_calls >>
    /\ UNCHANGED << vars_env, entry_idx, vars_search, vars_res, vars_late >>

\* the close attempt after the submit of a modal form
Stage3Close ==
    /\ pc = "s3_close"
    /\ now' = now + close_wait
    /\ flow' = Append(flow, Step("close", site.close_el = "found"))
    /\ IF close_modal(site.close_el, Fault("close_click", 0)).raised
       THEN \* the except of the form: `continue`
            rf_idx' = rf_idx + 1 /\ pc' = "s3_form"
       ELSE rf_idx' = rf_idx /\ pc' = "s3_record"
    /\ UNCHANGED << outcome, session, page_url, rand_idx, main_page,
                    exploration_report, auth_forms, stage_log >>
    /\ UNCHANGED << persona_idx, registration_forms, test_data, fill_result,
                    submit_result, registration_result, touched, attempt_calls >>
    /\ UNCHANGED << vars_env, entry_idx, vars_search, vars_res, vars_late >>

\* the dict _attempt_registration returns
Stage3Record ==
    /\ pc = "s3_record"
    /\ registration_result' = <<
          [ persona        |-> user_personas[persona_idx].name,
            form_url       |-> IF Truthy(registration_forms[rf_idx].source_url)
                               THEN registration_forms[rf_idx].source_url
                               ELSE "main_page",
            trigger_button |-> registration_forms[rf_idx].trigger_button,
            switch_button  |-> registration_forms[rf_idx].switch_button,
            test_data      |-> test_data,
            fill_result    |-> fill_result,
            submit_result  |-> submit_result,
            timestamp      |-> now ] >>
    /\ pc' = "s3_append"
    /\ UNCHANGED << outcome, session, page_url, now, rand_idx, main_page,
                    exploration_report, auth_forms, stage_log >>
    /\ UNCHANGED << persona_idx, registration_forms, rf_idx, test_data, fill_result,
                    submit_result, flow, touched, attempt_calls >>
    /\ UNCHANGED << vars_env, entry_idx, vars_search, vars_res, vars_late >>

\* back in deep_explore_website: `if registration_result:` append
Stage3Append ==
    /\ pc = "s3_append"
    /\ exploration_report' =
          IF registration_result # << >>
          THEN [exploration_report EXCEPT
                  !.registration_attempts = Append(@, registration_result[1])]
          ELSE exploration_report
    /\ persona_idx' = next_persona(persona_idx)
    /\ pc' = "s3_persona"
    /\ UNCHANGED << outcome, session, page_url, now, rand_idx, main_page,
                    auth_forms, stage_log >>
    /\ UNCHANGED << registration_forms, rf_idx, test_data, fill_result, submit_result,
                    registration_result, flow, touched, attempt_calls >>
    /\ UNCHANGED << vars_env, entry_idx, vars_search, vars_res, vars_late >>

(***************************************************************************)
(* Stage 4: _explore_all_forms.                                            *)
(***************************************************************************)
Stage4Begin ==
    /\ pc = "s4_begin"
    /\ stage_log' = Begin(4)
    /\ form_idx' = 1
    /\ form_results' = << >>
    /\ pc' = "s4_form"
    /\ UNCHANGED << outcome, session, page_url, now, rand_idx, main_page,
                    exploration_report, auth_forms >>
    /\ UNCHANGED << flow_idx, user_flows, matched, visits >>
    /\ UNCHANGED << vars_env, entry_idx, vars_search, vars_res, vars_reg >>

\* the test data of a form by its purpose, and the draws it takes
form_test_data(purpose) ==
    CASE purpose = "contact"      -> _generate_contact_data(timestamp)
      [] purpose = "search"       -> _generate_search_data(site.choices[1], site.choices[2],
                                                           site.choices[3])
      [] purpose = "subscription" -> _generate_subscription_data(timestamp)
      [] OTHER -> _generate_test_data(user_personas[1], timestamp, Draw(rand_idx))

form_draws(purpose) ==
    IF purpose \in {"contact", "search", "subscription"} THEN 0 ELSE 1

\* a variant that numbers the forms as enumerate does, from zero
form_interaction_zero_based(i, form) ==
    [ form_index   |-> i - 1,
      purpose      |-> _classify_form_purpose(form),
      inputs_count |-> Len(form.inputs),
      fill_result  |-> _fill_form_intelligently(form,
                           form_test_data(_classify_form_purpose(form)),
                           site.fill_absent, site.fill_raises),
      test_data_used |-> form_test_data(_classify_form_purpose(form)) ]

\* the dict appended for the form at position i (counted from 1 here, so
\* the source's `i + 1` is i)
form_interaction(i, form) ==
    [ form_index   |-> i,
      purpose      |-> _classify_form_purpose(form),
      inputs_count |-> Len(form.inputs),
      fill_result  |-> _fill_form_intelligently(form,
                           form_test_data(_classify_form_purpose(form)),
                           site.fill_absent, site.fill_raises),
      test_data_used |-> form_test_data(_classify_form_purpose(form)) ]

\* a variant that submits a form once it is filled, as stage 3 does
page_after_fill_submitted(url, filled) ==
    IF filled.success /\ site.submit.button = "found" /\ site.submit.new_url # None
    THEN site.submit.new_url ELSE url

\* the page after `fill_result = await self._fill_form_intelligently(...)`:
\* query_selector and fill only, and nothing of the loop clicks or navigates
page_after_fill(url, filled) == url

\* one iteration of `for i, form in enumerate(page_info.forms)`
Stage4Form ==
    /\ pc = "s4_form"
    /\ IF form_idx > Len(main_page.forms)
       THEN /\ exploration_report' =
                  [exploration_report EXCEPT !.form_interactions = form_results]
            /\ stage_log' = Return(4)
            /\ pc' = Continue(4)
            /\ UNCHANGED << form_idx, form_results, rand_idx, matched >>
       ELSE /\ form_results' = Append(form_results,
                                      form_interaction(form_idx, main_page.forms[form_idx]))
            /\ rand_idx' = rand_idx
                           + form_draws(_classify_form_purpose(main_page.forms[form_idx]))
            /\ matched' = matched_fields(main_page.forms[form_idx].inputs)
            /\ form_idx' = form_idx + 1
            /\ pc' = "s4_form"
            /\ UNCHANGED << exploration_report, stage_log >>
    /\ page_url' = IF form_idx > Len(main_page.forms) THEN page_url
                   ELSE page_after_fill(page_url, form_results'[form_idx].fill_result)
    /\ UNCHANGED << outcome, session, now, main_page, auth_forms >>
    /\ UNCHANGED << flow_idx, user_flows, visits >>
    /\ UNCHANGED << vars_env, entry_idx, vars_search, vars_res, vars_reg >>

(***************************************************************************)
(* Stage 5: _discover_hidden_functionality.                                *)
(***************************************************************************)
\* the list it returns.  The third page.evaluate asks for the selector
\* '[data-*]', which no browser accepts: it raises whenever it is reached.
hidden_features ==
    IF Fault("hidden", 0)
    THEN << [ type |-> "error" ] >>
    ELSE (IF site.hidden_elements > 0
          THEN << [ type |-> "hidden_elements", count |-> site.hidden_elements ] >>
          ELSE << >>)
         \o (IF site.html_comments > 0
             THEN << [ type |-> "html_comments", count |-> site.html_comments ] >>
             ELSE << >>)
         \o << [ type |-> "error" ] >>

Stage5Hidden ==
    /\ pc = stage_entry[5]
    /\ exploration_report' =
          [exploration_report EXCEPT !.hidden_functionality = hidden_features]
    /\ stage_log' = Append(Begin(5), << 5, "return" >>)
    /\ pc' = Continue(5)
    /\ UNCHANGED << outcome, session, page_url, now, rand_idx, main_page, auth_forms >>
    /\ UNCHANGED << vars_env, entry_idx, vars_search, vars_res, vars_reg, vars_late >>

(***************************************************************************)
(* Stage 6: _analyze_user_flows and _trace_user_flow.                      *)
(***************************************************************************)
Stage6Begin ==
    /\ pc = "s6_begin"
    /\ stage_log' = Begin(6)
    /\ flow_idx' = 1
    /\ user_flows' = << >>
    /\ UNCHANGED visits
    /\ pc' = "s6_link"
    /\ UNCHANGED << outcome, session, page_url, now, rand_idx, main_page,
                    exploration_report, auth_forms >>
    /\ UNCHANGED << form_idx, form_results, matched >>
    /\ UNCHANGED << vars_env, entry_idx, vars_search, vars_res, vars_reg >>

\* link.startswith('http') and 'javascript:' not in link
traceable(link) ==
    /\ Len(link) >= 4
    /\ SubSeq(link, 1, 4) = "http"
    /\ ~Contains(link, "javascript:")

\* one iteration of `for link in main_links`
Stage6Link ==
    /\ pc = "s6_link"
    /\ IF flow_idx > Len(Take(main_page.links, 10))
       THEN /\ exploration_report' = [exploration_report EXCEPT !.user_flows = user_flows]
            /\ stage_log' = Return(6)
            /\ pc' = Continue(6)
            /\ UNCHANGED << flow_idx, user_flows, page_url, visits >>
       ELSE /\ flow_idx' = flow_idx + 1
            /\ pc' = "s6_link"
            /\ UNCHANGED << exploration_report, stage_log >>
            /\ IF ~traceable(main_page.links[flow_idx])
               THEN UNCHANGED << user_flows, page_url, visits >>
               ELSE IF Fault("flow", flow_idx)
               THEN \* goto raises: _trace_user_flow returns None
                    /\ visits' = Append(visits, [ url |-> main_page.links[flow_idx],
                                                  at |-> now ])
                    /\ UNCHANGED << user_flows, page_url >>
               ELSE /\ page_url' = main_page.links[flow_idx]
                    /\ visits' = Append(visits, [ url |-> main_page.links[flow_idx],
                                                  at |-> now ])
                    /\ user_flows' = Append(user_flows,
                          [ start_url |-> main_page.links[flow_idx],
                            depth_explored |-> 1 ])
    /\ UNCHANGED << outcome, session, now, rand_idx, main_page, auth_forms >>
    /\ UNCHANGED << form_idx, form_results, matched >>
    /\ UNCHANGED << vars_env, entry_idx, vars_search, vars_res, vars_reg >>

(***************************************************************************)
(* Stages 7 and 8: _security_analysis, _performance_analysis.              *)
(***************************************************************************)
security_headers ==
    << "x-frame-options", "x-content-type-options", "x-xss-protection",
       "strict-transport-security", "content-security-policy" >>

security_findings ==
    IF Fault("security", 0)
    THEN << [ type |-> "security_analysis_error", error |-> "evaluate failed" ] >>
    ELSE (IF SelectSeq(security_headers, LAMBDA h : h \notin site.headers) # << >>
          THEN << [ type |-> "missing_security_headers", severity |-> "medium",
                    headers |-> SelectSeq(security_headers,
                                          LAMBDA h : h \notin site.headers) ] >>
          ELSE << >>)
         \o (IF site.forms_without_csrf > 0
             THEN << [ type |-> "forms_without_csrf", severity |-> "high",
                       count |-> site.forms_without_csrf ] >>
             ELSE << >>)

Stage7Security ==
    /\ pc = stage_entry[7]
    /\ exploration_report' =
          [exploration_report EXCEPT !.security_findings = security_findings]
    /\ stage_log' = Append(Begin(7), << 7, "return" >>)
    /\ pc' = Continue(7)
    /\ UNCHANGED << outcome, session, page_url, now, rand_idx, main_page, auth_forms >>
    /\ UNCHANGED << vars_env, entry_idx, vars_search, vars_res, vars_reg, vars_late >>

_generate_performance_recommendations(metrics) ==
    (IF metrics.page_load_time > 3000
     THEN << "Page load time is over 3 seconds - consider optimization" >> ELSE << >>)
    \o (IF metrics.resources_count > 50
        THEN << "High number of resources - consider bundling and minification" >>
        ELSE << >>)
    \o (IF metrics.largest_resource > 1000000
        THEN << "Large resources detected - consider compression and lazy loading" >>
        ELSE << >>)

performance_insights ==
    IF Fault("perf", 0)
    THEN [ error |-> "Performance analysis failed" ]
    ELSE [ metrics |-> site.metrics,
           analysis |-> "Performance analysis completed",
           recommendations |-> _generate_performance_recommendations(site.metrics) ]

Stage8Performance ==
    /\ pc = stage_entry[8]
    /\ exploration_report' =
          [exploration_report EXCEPT !.performance_insights = performance_insights]
    /\ stage_log' = Append(Begin(8), << 8, "return" >>)
    /\ pc' = Continue(8)
    /\ UNCHANGED << outcome, session, page_url, now, rand_idx, main_page, auth_forms >>
    /\ UNCHANGED << vars_env, entry_idx, vars_search, vars_res, vars_reg, vars_late >>

(***************************************************************************)
(* _save_exploration_report, the return, and __aexit__.                    *)
(***************************************************************************)
Save ==
    /\ pc = "save"
    /\ IF Fault("save", 0)
       THEN \* makedirs, open or json.dump raises
            Escapes
       ELSE /\ pc' = "done"
            /\ outcome' = "returned"
            /\ session' = "closed"
    /\ UNCHANGED << page_url, now, rand_idx, main_page, exploration_report,
                    auth_forms, stage_log >>
    /\ UNCHANGED << vars_env, entry_idx, vars_search, vars_res, vars_reg, vars_late >>

(***************************************************************************)
(* The sites and faults the runs are checked on.                           *)
(***************************************************************************)
NoDom == << >>

BaseSite ==
    [ forms |-> << >>, links |-> << >>, auth_links |-> << >>, signup_buttons |-> << >>,
      dom |-> [ discover |-> NoDom, trigger |-> NoDom, switch |-> NoDom ],
      modal_forms |-> << >>, mode_switches |-> << >>, switch_el |-> "absent",
      switched_forms |-> << >>, close_el |-> "absent", link_forms |-> NoDom,
      fill_absent |-> {}, fill_raises |-> {},
      submit |-> [ button |-> "found", new_url |-> None, content |-> "Welcome!" ],
      depth_entries |-> << "" >>, call_depth |-> << >>,
      rand |-> << "a1b2c3", "x9y8z7" >>, choices |-> << "test", "demo", "test" >>,
      llm |-> "json", hidden_elements |-> 0, html_comments |-> 0,
      headers |-> {}, forms_without_csrf |-> 0,
      metrics |-> [ page_load_time |-> 1200, dom_content_loaded |-> 800,
                    resources_count |-> 12, largest_resource |-> 50000 ] ]

FaultSets(calls) == { F \in SUBSET calls : Cardinality(F) <= MaxFaults }

Scenario(s, f) == [ site |-> s, faults |-> f ]

\* pages with forms and links only, and the faults of the stages
StageFaults ==
    { << "start", 0 >>, << "goto", 0 >>, << "llm", 0 >>, << "eval_links", 0 >>,
      << "hidden", 0 >>, << "flow", 1 >>, << "security", 0 >>, << "perf", 0 >>,
      << "save", 0 >> }

StaticScenarios ==
    { Scenario([ forms |-> fs, links |-> ls, llm |-> a ] @@ BaseSite, f) :
        fs \in BSeq(FormPool, MaxForms),
        ls \in { << >>, << "https://site.test/about", "mailto:team@site.test" >> },
        a \in { "json", "text" },
        f \in FaultSets(StageFaults) }
    \cup
    \* a main page with several links to trace, one of them not traceable
    { Scenario([ forms |-> fs,
                 links |-> << "https://site.test/about", "javascript:void(0)",
                              "https://site.test/pricing", "https://site.test/blog" >> ]
               @@ BaseSite, f) :
        fs \in { << >>, << LoginForm >> },
        f \in FaultSets({ << "flow", 1 >>, << "flow", 3 >>, << "flow", 4 >> }) }

\* pages with one signup button: every answer the first selector can give,
\* with or without a later selector that works
ButtonDom(first, later) ==
    IF later
    THEN ("button:has-text('Sign Up')" :> first) @@ (".signup-btn" :> Matches(<< Clickable >>))
    ELSE ("button:has-text('Sign Up')" :> first)

ResolverScenarios ==
    { Scenario([ signup_buttons |-> << TextButton >>,
                 dom |-> [ discover |-> ButtonDom(first, later),
                           trigger  |-> ButtonDom(first, later),
                           switch   |-> NoDom ] ] @@ BaseSite, {}) :
        first \in { QueryRaises } \cup { Matches(es) : es \in BSeq(Elements, MaxElements) },
        later \in BOOLEAN }

\* pages whose signup buttons open a modal
WorkingDom ==
    ("button:has-text('Sign Up')" :> Matches(<< Clickable >>))
    @@ ("[data-testid='signup-icon']" :> Matches(<< Clickable >>))
    @@ ("[aria-label*='sign up']" :> Matches(<< Clickable >>))

SwitchDom == ("button:has-text('Sign up')" :> Matches(<< Clickable >>))

ModalSite ==
    [ signup_buttons |-> << TextButton >>, modal_forms |-> << RegForm >>,
      dom |-> [ discover |-> WorkingDom, trigger |-> WorkingDom, switch |-> SwitchDom ],
      close_el |-> "found" ] @@ BaseSite

ModalScenarios ==
    { Scenario([ signup_buttons |-> bs, modal_forms |-> mfs, mode_switches |-> sws,
                 switch_el |-> sel, switched_forms |-> sfs ] @@ ModalSite, {}) :
        bs  \in { << TextButton >>, << IconButton >>, << TextButton, IconButton >> },
        mfs \in { << >>, << RegForm >>, << LoginForm >>, << LoginForm, RegForm >>,
                  << PlainForm >> },
        sws \in { << >>, << SignUpSwitch >>, << JoinSwitch, SignUpSwitch >> },
        sel \in { "found", "absent", "raises" },
        sfs \in { << RegForm >>, << LoginForm >> } }

\* the registration of a modal form: the trigger at registration time, the
\* close button, the fields and the submit button
FlowScenarios ==
    { Scenario([ dom |-> [ discover |-> WorkingDom, trigger |-> td, switch |-> SwitchDom ],
                 close_el |-> ce, fill_absent |-> fa, fill_raises |-> fr,
                 submit |-> sb ] @@ ModalSite, {}) :
        td \in { WorkingDom, NoDom,
                 ("button:has-text('Sign Up')" :> QueryRaises) @@ WorkingDom },
        ce \in { "found", "absent", "raises" },
        fa \in { {}, { "email" }, { "password", "confirm_password", "email" } },
        fr \in { {}, { "password" }, { "confirm_password" } },
        sb \in { [ button |-> "found", new_url |-> None, content |-> "Welcome!" ],
                 [ button |-> "found", new_url |-> "https://site.test/home",
                   content |-> "Error: email already exists" ],
                 [ button |-> "absent", new_url |-> None, content |-> "" ],
                 [ button |-> "raises", new_url |-> None, content |-> "" ] } }
    \cup
    \* the page after the submit of a static form: with a success phrase, an
    \* error phrase, both or neither
    { Scenario([ forms |-> << RegForm >>,
                 submit |-> [ button |-> "found", new_url |-> u, content |-> c ] ]
               @@ BaseSite, f) :
        u \in { None, "https://site.test/home" },
        c \in { "Account Created", "Check your inbox", "This field is REQUIRED",
                "Welcome back. Invalid password", "" },
        f \in FaultSets({ << "submit", 1 >>, << "submit", 3 >> }) }
    \cup
    \* static forms no registration attempt submits, on a page whose submit
    \* button leads elsewhere
    { Scenario([ forms |-> fs,
                 submit |-> [ button |-> "found", new_url |-> "https://site.test/home",
                              content |-> "Welcome!" ] ] @@ BaseSite, {}) :
        fs \in { << LoginForm >>, << PlainForm, LoginForm >> } }

ModalFaults ==
    { << "modal_eval", 1 >>, << "switch_eval", 1 >>, << "switch_click", 1 >>,
      << "switched_eval", 1 >>, << "close_click", 0 >>, << "submit", 1 >>,
      << "submit", 2 >>, << "llm", 0 >>, << "save", 0 >> }

ModalFaultScenarios ==
    { Scenario([ modal_forms |-> mfs, mode_switches |-> << SignUpSwitch >>,
                 switch_el |-> "found", switched_forms |-> << RegForm >> ] @@ ModalSite, f) :
        mfs \in { << RegForm >>, << LoginForm >> },
        f \in FaultSets(ModalFaults) }
    \cup
    \* the mode switch found at discovery and, at registration time, every
    \* answer its first text selector can give
    { Scenario([ modal_forms |-> << LoginForm >>, mode_switches |-> << SignUpSwitch >>,
                 switch_el |-> "found", switched_forms |-> << RegForm >>,
                 dom |-> [ discover |-> WorkingDom, trigger |-> WorkingDom,
                           switch |-> sd ] ] @@ ModalSite, {}) :
        sd \in { NoDom, ("button:has-text('Sign up')" :> QueryRaises) }
               \cup { ("button:has-text('Sign up')" :> Matches(<< e >>)) : e \in Elements } }

\* pages with auth links
LoginLink == [href |-> "https://site.test/login", text |-> "Log in"]

LinkFaults ==
    { << "link_goto", 1 >>, << "link_wait", 1 >>, << "nav", 1 >>, << "nav", 2 >> }

LinkScenarios ==
    { Scenario([ forms |-> fs, auth_links |-> als,
                 link_forms |-> (RegisterLink.href :> lfs)
                                @@ (LoginLink.href :> << LoginForm >>) ] @@ BaseSite, f) :
        fs  \in { << >>, << RegForm >> },
        als \in BSeq({ RegisterLink, LoginLink }, 2),
        lfs \in { << >>, << RegForm >>, << LoginForm, RegForm >> },
        f \in FaultSets(LinkFaults) }

\* two signup buttons and a register link: the first trigger may fail at
\* discovery or at registration time, and a step of the flow may raise
TriggerScenarios ==
    LET IconDom == ("[data-testid='signup-icon']" :> Matches(<< Clickable >>))
        TextDom == ("button:has-text('Sign Up')" :> Matches(<< Clickable >>))
    IN  { Scenario([ signup_buttons |-> bs,
                     auth_links |-> als,
                     link_forms |-> (RegisterLink.href :> << RegForm >>),
                     dom |-> [ discover |-> dd, trigger |-> td, switch |-> SwitchDom ] ]
                   @@ ModalSite, f) :
            bs  \in { << TextButton, IconButton >>, << IconButton, TextButton >> },
            als \in { << >>, << RegisterLink >> },
            dd  \in { WorkingDom, IconDom, TextDom },
            td  \in { WorkingDom, NoDom },
            f   \in FaultSets({ << "nav", 1 >>, << "settle", 1 >>, << "settle", 2 >> }) }

\* pages with a form and the same form without text in or around it, and
\* pages that have a form twice: the texts in and around the form, its fields
ClassifierScenarios ==
    LET texts ==
          { << "", "" >>, << "Create Account", "" >>, << "Sign in", "" >>,
            << "Submit", "Newsletter" >>, << "Submit", "Join our newsletter" >>,
            << "Submit", "Get product updates" >>, << "Send", "Contact us" >>,
            << "Go", "Search" >>, << "Sign in or Register", "" >>,
            << "Login", "Contact support" >>, << "Send message", "Search the site" >>,
            << "Search", "Subscribe to our Newsletter" >> }
        fields ==
          { << Field("password", "password", ""),
               Field("confirm_password", "password", ""),
               Field("email", "email", "") >>,
            << Field("password", "password", ""),
               Field("confirm_password", "password", "") >>,
            << Field("password", "password", ""),
               Field("repeat_password", "password", ""),
               Field("email", "email", "") >>,
            << Field("password", "password", ""),
               Field("repeat_email", "email", "") >>,
            << Field("email", "email", ""), Field("password", "password", "") >>,
            << Field("email", "email", "") >>,
            << Field("email", "email", "Your email"), Field("city", "text", "") >>,
            << Field("email", "email", ""), Field("pass", "password", ""),
               Field("pass2", "password", "Repeat your pass") >>,
            << Field("email", "email", ""), Field("agree_terms", "checkbox", ""),
               Field("email_optin", "checkbox", "") >>,
            << Field("email", "email", ""),
               Field("password", "password", "Create a password") >>,
            << Field("email", "email", ""),
               Field("password", "password", "Create your password") >>,
            << Field("q", "text", "") >> }
        forms ==
          { [ form_text |-> t[1], nearby_text |-> t[2], method |-> "post", inputs |-> fs ] :
              t \in texts, fs \in fields }
    IN  UNION { { Scenario([ forms |-> << f, g >> ] @@ BaseSite, {}) :
                    g \in { f, [f EXCEPT !.form_text = "", !.nearby_text = ""] } } :
                f \in forms }
        \cup
        \* a profile form whose fields match several rules, one rule or none
        { Scenario([ forms |->
                       << [ form_text |-> t, nearby_text |-> "", method |-> "post",
                            inputs |-> << Field("user_email", "text", ""),
                                          Field("username", "text", ""),
                                          Field("last_login", "text", ""),
                                          Field("first_name", "text", ""),
                                          Field("surname", "text", ""),
                                          Field("company_name", "text", ""),
                                          Field("mobile", "tel", "Phone country code"),
                                          Field("zip_city", "text", ""),
                                          Field("organization", "text", ""),
                                          Field("message", "textarea", ""),
                                          Field("postal", "text", ""),
                                          Field("", "text", "Anything"),
                                          Field("q", "text", ""),
                                          Field("", "search", "") >> ] >> ]
                   @@ BaseSite, {}) :
            t \in { "", "Create profile", "Update your details" } }

\* how the depth reaches the run, on a page with a form and a link: what the
\* user types at the prompt of smart_demo, or the max_depth of a direct call
DepthScenarios ==
    { Scenario([ depth_entries |-> es, forms |-> << LoginForm >>,
                 links |-> << "https://site.test/about" >> ] @@ BaseSite, {}) :
        es \in BSeq({ "", "1", " 5 ", "0", "6", "-1", "five" }, 2)
               \cup { << "0", "6", "-1", "5" >>, << "+2" >>, << "12", "3.5", "4" >> } }
    \cup
    { Scenario([ call_depth |-> << d >>, forms |-> << LoginForm >>,
                 links |-> << "https://site.test/about" >> ] @@ BaseSite, {}) :
        d \in { -1, 0, 1, 3, 5, 6 } }

Scenarios ==
    StaticScenarios \cup ResolverScenarios \cup ModalScenarios \cup FlowScenarios
    \cup ModalFaultScenarios \cup LinkScenarios \cup TriggerScenarios
    \cup ClassifierScenarios \cup DepthScenarios

(***************************************************************************)
(* The specification.                                                      *)
(***************************************************************************)
Init ==
    /\ \E sc \in Scenarios : site = sc.site /\ faults = sc.faults
    /\ InitRun

Next ==
    \/ GetDepth
    \/ DeepExplore
    \/ Start
    \/ Stage1Navigate
    \/ Stage1Analyze
    \/ Stage2Static
    \/ Stage2Eval
    \/ Stage2Button
    \/ ResolveQuery
    \/ ResolveElement
    \/ ResolveAdvance
    \/ ResolveReturn
    \/ Stage2Modal
    \/ Stage2ModalForm
    \/ Stage2SwitchEval
    \/ Stage2Switch
    \/ Stage2Close
    \/ Stage2Link
    \/ Stage2Return
    \/ Stage3Begin
    \/ Stage3Persona
    \/ Stage3Form
    \/ Stage3Settle
    \/ Stage3Nav
    \/ Stage3Fill
    \/ Stage3Submit
    \/ Stage3Close
    \/ Stage3Record
    \/ Stage3Append
    \/ Stage4Begin
    \/ Stage4Form
    \/ Stage5Hidden
    \/ Stage6Begin
    \/ Stage6Link
    \/ Stage7Security
    \/ Stage8Performance
    \/ Save

Spec == Init /\ [][Next]_vars

(***************************************************************************)
(* Properties.                                                             *)
(***************************************************************************)
Returned == pc = "done" /\ outcome = "returned"

StageReturned(k) == << k, "return" >> \in Range(stage_log)

\* every stage begun and returned, in the order of the specification
StageOrder ==
    [ i \in 1..16 |-> << (i + 1) \div 2, IF i % 2 = 1 THEN "begin" ELSE "return" >> ]

IsPrefix(a, b) == Len(a) <= Len(b) /\ a = SubSeq(b, 1, Len(a))

\* C1: once discovery has returned, and so in every run that returns a
\* report, the report's auth_forms_discovered is the length of the list
\* discovery returned.
C1_AuthFormsCounted ==
    /\ StageReturned(2) =>
          exploration_report.auth_forms_discovered = Len(auth_forms)
    /\ Returned => StageReturned(2)

\* a report is returned for a list that holds a form of the main page and a
\* form found behind a trigger or a link
C1_Witness ==
    /\ Returned
    /\ \E i, j \in DOMAIN auth_forms :
          auth_forms[i].source_url = None /\ auth_forms[j].source_url # None

\* the page holds no form, no auth link and no signup trigger
EmptyPage ==
    site.forms = << >> /\ site.auth_links = << >> /\ site.signup_buttons = << >>

\* C2: a run over a page with no forms, no auth links and no signup triggers
\* ends with a report that counts 0 auth forms and has no registration
\* attempts, no exception escapes it, and every registration attempt returns
\* None without using the browser.
C2_EmptyPageRun ==
    (EmptyPage /\ ~Fault("start", 0)) =>
       /\ pc = "done" =>
             /\ outcome = "returned"
             /\ exploration_report.auth_forms_discovered = 0
             /\ exploration_report.registration_attempts = << >>
       /\ pc = "s3_append" => (registration_result = << >> /\ ~touched)

\* C3: the stages begin and return in the order 1..8, each after the one
\* before it has returned, and a run that returns a report has run each of
\* them once.
C3_StagesInOrder ==
    /\ IsPrefix(stage_log, StageOrder)
    /\ Returned => stage_log = StageOrder

\* a run that returns a report after a registration was recorded
C3_Witness ==
    /\ Returned
    /\ stage_log = StageOrder
    /\ exploration_report.registration_attempts # << >>

\* C4: unless the browser session is missing, a failure in a stage, form,
\* persona or link never keeps the rest of the run from executing: the run
\* ends with a report and every stage has returned.
C4_StagesIsolated ==
    (pc = "done" /\ ~Fault("start", 0)) =>
       (outcome = "returned" /\ \A k \in 1..8 : StageReturned(k))

PersonaNames == [ i \in DOMAIN user_personas |-> user_personas[i].name ]

\* C5: the registration attempt is called for the personas in list order,
\* once each when stage 3 has returned; the report holds at most one entry
\* per call and no two for one persona; and within a call no form is worked
\* on after the form whose fill succeeded.
C5_OncePerPersona ==
    /\ IsPrefix(attempt_calls, PersonaNames)
    /\ StageReturned(3) => attempt_calls = PersonaNames
    /\ LET attempts == exploration_report.registration_attempts IN
         /\ Len(attempts) <= Len(attempt_calls)
         /\ Len(attempts) <= Len(user_personas)
         /\ \A i \in DOMAIN attempts : attempts[i].persona \in Range(attempt_calls)
         /\ \A i, j \in DOMAIN attempts :
               attempts[i].persona = attempts[j].persona => i = j
    /\ \A i, j \in DOMAIN flow :
          (i < j /\ flow[i].step = "fill" /\ flow[i].ok) => flow[j].form = flow[i].form

\* stage 3 has returned with an entry for each persona, from a list that
\* holds more than one registration form
C5_Witness ==
    /\ StageReturned(3)
    /\ Len(exploration_report.registration_attempts) = Len(user_personas)
    /\ Len(registration_forms) > 1

\* C6: nothing is queried or tried after a click has succeeded; a query or a
\* click that raises does not end the search; failure is reported only when
\* every selector has been queried and every matched element tried.
C6_ResolverSearch ==
    /\ r_after = 0
    /\ r_result = "clicked" => (button_clicked /\ el_rec.ok /\ r_tried <= r_matched)
    /\ r_result = "failed" =>
          /\ ~button_clicked
          /\ r_queries = Len(selectors)
          /\ r_tried = r_matched

\* a search that went past elements whose click raised to a later selector
\* and ended at its first successful click
C6_Witness ==
    /\ r_result = "clicked"
    /\ r_queries > 1
    /\ r_tried > 1
    /\ r_tried = r_matched

\* the element processed last was visible at the first check, or was found
\* visible by the re-check after the scroll
SeenVisible == el_rec.vis1 \/ el_rec.scroll = "visible"

C8_VisibleAfterScroll ==
    (el_rec.read /\ ~el_rec.vis1 /\ el_rec.scroll = "visible") =>
       el_rec.clicks = << "normal" >>

\* C8, amended: an enabled element invisible at the first check and visible
\* after the scroll re-check gets the normal click and no other.
C8_EnabledVisibleAfterScroll ==
    (el_rec.read /\ ~el_rec.vis1 /\ el_rec.scroll = "visible" /\ el_rec.enabled) =>
       el_rec.clicks = << "normal" >>

\* an enabled element the scroll made visible was clicked
C8_Witness ==
    /\ el_rec.read /\ ~el_rec.vis1 /\ el_rec.enabled
    /\ el_rec.scroll = "visible"
    /\ el_rec.ok
    /\ el_rec.clicks = << "normal" >>

\* C9: an enabled element that is visible neither at the first check nor
\* after the scroll re-check, the scroll raising included, gets the forced
\* click; no element is scrolled to more than once.
C9_ForcedWhenNeverVisible ==
    /\ (el_rec.read /\ el_rec.enabled /\ ~SeenVisible) =>
          el_rec.clicks = << "forced" >>
    /\ el_rec.scrolls <= 1

\* an enabled element whose scroll raised got the forced click
C9_Witness ==
    /\ el_rec.read /\ el_rec.enabled /\ ~el_rec.vis1
    /\ el_rec.scroll = "scroll_raises"
    /\ el_rec.scrolls = 1
    /\ el_rec.clicks = << "forced" >>

\* the form a step worked on was found in a modal
ModalStep(i) == registration_forms[flow[i].form].source_url = "modal_window"

\* step j of the flow has a step `name` before it on the same form
Preceded(j, name, needs_ok) ==
    \E i \in DOMAIN flow :
        /\ i < j
        /\ flow[i].form = flow[j].form
        /\ flow[i].step = name
        /\ (needs_ok => flow[i].ok)

\* C10: on a form found in a modal the steps of an attempt come in the order
\* trigger click, settle, switch click, fill, submit, close: no fill without
\* a successful trigger click before it, no switch click without the trigger
\* click and the settle before it, no submit without a fill before it, no
\* close without a submit before it.
C10_ModalOrder ==
    \A j \in DOMAIN flow :
        ModalStep(j) =>
           /\ flow[j].step = "settle" => Preceded(j, "trigger", TRUE)
           /\ flow[j].step = "switch" => Preceded(j, "settle", TRUE)
           /\ flow[j].step = "fill"   => Preceded(j, "trigger", TRUE)
           /\ flow[j].step = "submit" => Preceded(j, "fill", TRUE)
           /\ flow[j].step = "close"  => Preceded(j, "submit", TRUE)

(***************************************************************************)
(* A trigger that could not be clicked.                                    *)
(***************************************************************************)
\* the trigger step of flow[i] found no selector that could be clicked
TriggerFailed(log, i) == log[i].step = "trigger" /\ ~log[i].ok

\* C11: when no selector of a trigger could be clicked, nothing else is done
\* for that form or button (no settle wait, mode switch, fill, submit or
\* close), the loop goes on with the next form or button, and the run does
\* not end with an exception.
C11_TriggerFailureSkips ==
    /\ \A i, j \in DOMAIN flow :
          TriggerFailed(flow, i) /\ flow[j].form = flow[i].form => j = i
    /\ \A i, j \in DOMAIN search_flow :
          TriggerFailed(search_flow, i) /\ search_flow[j].button = search_flow[i].button
             => j = i
    /\ pc = "s3_append" =>
          \A i \in DOMAIN flow :
             TriggerFailed(flow, i) /\ flow[i].form < Len(registration_forms)
                => \E j \in DOMAIN flow : j > i /\ flow[j].form = flow[i].form + 1
    /\ StageReturned(2) =>
          \A i \in DOMAIN search_flow :
             TriggerFailed(search_flow, i)
             /\ search_flow[i].button < Len(Take(signup_buttons, 2))
                => \E j \in DOMAIN search_flow :
                      /\ j > i
                      /\ search_flow[j].step = "trigger"
                      /\ search_flow[j].button = search_flow[i].button + 1
    /\ (pc = "done" /\ \E i \in DOMAIN flow : TriggerFailed(flow, i))
          => outcome = "returned"

\* the first signup button could not be clicked and the second was tried;
\* the first registration form's trigger could not be clicked and the second
\* form was worked on
C11_Witness ==
    /\ pc = "s3_append"
    /\ \E i, j \in DOMAIN search_flow :
          /\ TriggerFailed(search_flow, i) /\ search_flow[i].button = 1
          /\ search_flow[j].step = "trigger" /\ search_flow[j].button = 2
    /\ \E i, j \in DOMAIN flow :
          /\ TriggerFailed(flow, i) /\ flow[i].form = 1
          /\ flow[j].form = 2

(***************************************************************************)
(* An exception inside the body of `for form_data in registration_forms`.  *)
(***************************************************************************)
\* C12: when a step of a persona's registration flow raised, the attempt is
\* not dropped: after the call the report holds an attempt of that persona.
C12_ExceptionRecorded ==
    LET \* a step of the call raised: goto or the wait after the trigger click
        raised == \E i \in DOMAIN flow :
                     flow[i].step \in { "goto", "settle" } /\ ~flow[i].ok
    IN  (pc = "s3_persona" /\ persona_idx > 1 /\ raised) =>
          \E k \in DOMAIN exploration_report.registration_attempts :
             exploration_report.registration_attempts[k].persona
                = user_personas[persona_idx - 1].name

(***************************************************************************)
(* How the work on a modal form ends.                                      *)
(***************************************************************************)
\* C13: once the trigger of a modal form was clicked, the work on that form
\* ends with a close attempt or with an exception, whatever the fill did.
C13_ModalFlowEnds ==
    LET \* the body of `for form_data in registration_forms` has ended for form k
        done(k) ==
            \/ rf_idx > k
            \/ pc \notin { "resolve", "s3_form", "s3_settle", "s3_nav", "s3_fill",
                           "s3_submit", "s3_close" }
    IN
    \A i \in DOMAIN flow :
       (flow[i].step = "trigger" /\ flow[i].ok /\ done(flow[i].form)) =>
          \E j \in DOMAIN flow :
             /\ j > i
             /\ flow[j].form = flow[i].form
             /\ \/ flow[j].step = "close"
                \/ flow[j].step = "settle" /\ ~flow[j].ok

(***************************************************************************)
(* The classification of the forms of the main page, as stage 4 records    *)
(* it.                                                                     *)
(***************************************************************************)
\* the form a form_interactions entry is about
FormOf(r) == main_page.forms[r.form_index]

\* a password-typed field and another field whose name has confirm or repeat;
\* with `third`, an email-typed field besides those two
HasConfirmField(form, third) ==
    \E i, j \in DOMAIN form.inputs :
       /\ i # j
       /\ Lower(form.inputs[i].type) = "password"
       /\ AnyIn({ "confirm", "repeat" }, Lower(form.inputs[j].name))
       /\ third => \E k \in DOMAIN form.inputs \ { i, j } :
                      Lower(form.inputs[k].type) = "email"

\* the text in and around the form has one of the words of `keywords`
TextHas(form, keywords) ==
    AnyIn(keywords, Lower(form.form_text \o " " \o form.nearby_text))

OneEmailNoPassword(form) ==
    /\ Cardinality({ i \in DOMAIN form.inputs : Lower(form.inputs[i].type) = "email" }) = 1
    /\ \A i \in DOMAIN form.inputs : Lower(form.inputs[i].type) # "password"

\* C15 as stated: a form with exactly one email-typed field and no password
\* field is a subscription when the text in or around it contains
\* "newsletter", and unknown when it does not.
C15_NewsletterOrUnknown ==
    \A n \in DOMAIN form_results :
       OneEmailNoPassword(FormOf(form_results[n])) =>
          form_results[n].purpose =
             IF TextHas(FormOf(form_results[n]), { "newsletter" })
             THEN "subscription" ELSE "unknown"

\* C15: a form with exactly one email-typed field and no password field is a
\* subscription when its text contains "newsletter" and no registration, login,
\* contact or search keyword; it is unknown when its text contains no keyword
\* of the classifier, neither "subscribe", "newsletter" nor "updates", and no
\* placeholder has "create a password" or "create password".
C15_NewsletterWithoutKeyword ==
    \A n \in DOMAIN form_results :
       LET form == FormOf(form_results[n])
           others == registration_keywords \cup login_keywords
                     \cup { "contact", "message", "email us", "search" }
       IN  OneEmailNoPassword(form) =>
             /\ (TextHas(form, { "newsletter" }) /\ ~TextHas(form, others))
                   => form_results[n].purpose = "subscription"
             /\ (/\ ~TextHas(form, others \cup { "subscribe", "newsletter", "updates" })
                 /\ \A i \in DOMAIN form.inputs :
                       ~AnyIn({ "create a password", "create password" },
                              Lower(form.inputs[i].placeholder)))
                   => form_results[n].purpose = "unknown"

\* a form with one email field under "Newsletter" was classified subscription,
\* and the same form without text unknown
C15_Witness ==
    \E m, n \in DOMAIN form_results :
       /\ OneEmailNoPassword(FormOf(form_results[m]))
       /\ FormOf(form_results[m]).nearby_text = "Newsletter"
       /\ form_results[m].purpose = "subscription"
       /\ FormOf(form_results[n]).inputs = FormOf(form_results[m]).inputs
       /\ FormOf(form_results[n]).nearby_text = ""
       /\ form_results[n].purpose = "unknown"

(***************************************************************************)
(* The rule that matched a field.                                          *)
(***************************************************************************)
\* the hints of the k-th field of the last fill call contain one of `words`
HintsHave(k, words) ==
    AnyIn(words, matched[k].field_name \o " " \o matched[k].field_type \o " "
                 \o matched[k].placeholder)

\* C16: a field named confirm_password of type password is given the
\* password_confirm slot; and every field whose hints contain "password" or
\* "pass" (and that the email rule before it did not take) is given
\* password_confirm when its hints contain "confirm" or "repeat", and
\* password only when they do not.
C16_ConfirmBeforePassword ==
    \A k \in DOMAIN matched :
       /\ (matched[k].field_name = "confirm_password" /\ matched[k].field_type = "password")
             => matched[k].rule = "password_confirm"
       /\ (HintsHave(k, { "password", "pass" }) /\ ~HintsHave(k, { "email", "e-mail" }))
             => matched[k].rule = IF HintsHave(k, { "confirm", "repeat" })
                                  THEN "password_confirm" ELSE "password"

\* the fill call matched a confirm_password field of type password to
\* password_confirm and the password field before it to password
C16_Witness ==
    \E j, k \in DOMAIN matched :
       /\ matched[j].field_name = "password" /\ matched[j].rule = "password"
       /\ matched[k].field_name = "confirm_password"
       /\ matched[k].field_type = "password"
       /\ matched[k].rule = "password_confirm"

(***************************************************************************)
(* The test data of the forms of one run.                                  *)
(***************************************************************************)
\* C17: no two data sets generated in one run for the forms of the page have
\* the same email or the same username, also when they are generated within
\* one second.
C17_UniqueIdentities ==
    \A m, n \in DOMAIN form_results :
       m # n =>
          \A slot \in { "email", "username" } :
             ( /\ slot \in DOMAIN form_results[m].test_data_used
               /\ slot \in DOMAIN form_results[n].test_data_used )
             => form_results[m].test_data_used[slot] # form_results[n].test_data_used[slot]

(***************************************************************************)
(* A page whose only form is the "Create Account" form.                    *)
(***************************************************************************)
\* C18: when the snapshot has the one form with the fields password,
\* confirm_password (both of type password) and email and the button text
\* "Create Account", discovery lists it as a registration form with
\* confidence of at least 0.8 (80 hundredths), stage 4 classifies it
\* registration, and every fill of it that finds all fields fills 3 fields.
C18_CreateAccountForm ==
    main_page.forms = << RegForm >> =>
       /\ StageReturned(2) =>
             \E i \in DOMAIN auth_forms :
                /\ auth_forms[i].form = RegForm
                /\ auth_forms[i].purpose = "registration"
                /\ auth_forms[i].confidence >= 80
       /\ \A n \in DOMAIN form_results :
             /\ form_results[n].purpose = "registration"
             /\ (site.fill_absent = {} /\ site.fill_raises = {})
                   => Len(form_results[n].fill_result.filled_fields) = 3
       /\ \A k \in DOMAIN exploration_report.registration_attempts :
             (site.fill_absent = {} /\ site.fill_raises = {})
                => Len(exploration_report.registration_attempts[k].fill_result
                          .filled_fields) = 3

\* the run on such a page has listed the form, recorded a registration
\* attempt with three filled fields and filled the form in stage 4
C18_Witness ==
    /\ main_page.forms = << RegForm >>
    /\ site.fill_absent = {} /\ site.fill_raises = {}
    /\ auth_forms # << >> /\ auth_forms[1].form = RegForm
    /\ auth_forms[1].confidence = 80
    /\ exploration_report.registration_attempts # << >>
    /\ Len(exploration_report.registration_attempts[1].fill_result.filled_fields) = 3
    /\ form_results # << >>
    /\ form_results[1].purpose = "registration"

(***************************************************************************)
(* The entries of security_findings.                                       *)
(***************************************************************************)
\* C19: every entry of the report's security_findings has a type and a
\* severity, and its type is missing_security_headers, forms_without_csrf or
\* security_analysis_error; also the entry written when the analysis raises.
C19_FindingsHaveSeverity ==
    \A k \in DOMAIN exploration_report.security_findings :
       /\ { "type", "severity" } \subseteq DOMAIN exploration_report.security_findings[k]
       /\ exploration_report.security_findings[k].type
             \in { "missing_security_headers", "forms_without_csrf",
                   "security_analysis_error" }

(***************************************************************************)
(* The depth a run is started with.                                        *)
(***************************************************************************)
\* C20: a run is started only with a depth from 1 to 5: while the prompt has
\* not accepted an entry no browser session exists and no stage has begun,
\* and once the session or a stage has started the depth of the report is in
\* 1..5.
C20_DepthInRange ==
    /\ pc = "prompt" => session = "none" /\ stage_log = << >>
    /\ outcome = "exit" => session = "none" /\ stage_log = << >>
    /\ (session # "none" \/ stage_log # << >>)
          => exploration_report.exploration_depth \in 1 .. 5

\* C21: when goto or the network-idle wait of navigate_to_page raised, nothing
\* reaches the caller: stage 1 holds an empty snapshot (empty title, content,
\* links, images, forms and meta tags, no status) whose errors hold the
\* message, and goes on to the page analysis; without a page the call raises.
C21_NavigationFailureKept ==
    /\ \A r \in BOOLEAN : navigate_to_page(FALSE, Url, r).raised
    /\ (Fault("goto", 0) /\ stage_log # << >>) =>
          /\ main_page.url = Url
          /\ main_page.title = "" /\ main_page.content = ""
          /\ main_page.links = << >> /\ main_page.images = << >>
          /\ main_page.forms = << >> /\ main_page.meta_tags = << >>
          /\ main_page.status_code = << >>
          /\ Len(main_page.errors) = 1
          /\ Contains(main_page.errors[1], "goto")
          /\ pc = "s1_analyze" => outcome = "running"
          /\ (outcome = "raised" /\ Len(stage_log) = 1) => Fault("llm", 0)

\* the navigation of stage 1 failed on a page with forms and links, and the
\* run went on through the later stages
C21_Witness ==
    /\ Fault("goto", 0)
    /\ site.forms # << >> /\ site.links # << >>
    /\ main_page.errors # << >>
    /\ outcome = "returned"

\* C22: in a fill of a registration form every field that has a value is
\* visited in the order of the form: the fields whose fill raised are the
\* errors, in order, and the fields on the page whose fill did not raise are
\* the filled_fields, in order, those after a failing field included.
C22_FillGoesOn ==
    LET sel(m)    == IF m.field_name # "" THEN m.field_name ELSE m.field_type
        valued(m) == \/ m.rule = "Test input"
                     \/ m.rule # None /\ Truthy(Get(test_data, m.rule))
        fails(m)  == valued(m) /\ sel(m) \in site.fill_raises
        fills(m)  == valued(m) /\ sel(m) \notin site.fill_raises \cup site.fill_absent
        names(s)  == [ i \in DOMAIN s |-> s[i].field_name ]
    IN  (pc \in { "s3_submit", "s3_form" } /\ flow # << >>
           /\ flow[Len(flow)].step = "fill") =>
          /\ fill_result.errors = names(SelectSeq(matched, fails))
          /\ [ i \in DOMAIN fill_result.filled_fields |->
                  fill_result.filled_fields[i].field ]
                = names(SelectSeq(matched, fills))

\* the fill of the second field raised; the field before it and the field
\* after it were filled
C22_Witness ==
    /\ pc = "s3_submit" /\ flow[Len(flow)].step = "fill"
    /\ site.fill_raises = { "confirm_password" }
    /\ fill_result.errors = << "confirm_password" >>
    /\ Len(matched) = 3 /\ matched[2].field_name = "confirm_password"
    /\ Len(fill_result.filled_fields) = 2
    /\ fill_result.filled_fields[1].field = matched[1].field_name
    /\ fill_result.filled_fields[2].field = matched[3].field_name

\* C23: the submit of a form never raises and always gives a result: with no
\* submit button, or when the click raised, success is false and the result
\* carries an error text; otherwise success is true exactly when the page has
\* a success phrase and no error phrase, and a page with neither phrase gives
\* success false with the note that the submission may have failed.
C23_SubmitResult ==
    LET content  == Lower(site.submit.content)
        has_good == AnyIn(success_indicators, content)
        has_bad  == AnyIn(error_indicators, content)
        ran      == site.submit.button = "found" /\ ~Fault("submit", persona_idx)
    IN  (pc \in { "s3_close", "s3_record" } /\ flow[Len(flow)].step = "submit") =>
          /\ outcome = "running"
          /\ "success" \in DOMAIN submit_result
          /\ ~ran => /\ ~submit_result.success
                     /\ "error" \in DOMAIN submit_result
                     /\ submit_result.error # ""
          /\ ran => (submit_result.success <=> (has_good /\ ~has_bad))
          /\ (ran /\ ~has_good /\ ~has_bad) =>
                /\ ~submit_result.success
                /\ submit_result.response_analysis = "Form submission may have failed"

\* a form was submitted and the page that followed has neither a success
\* phrase nor an error phrase
C23_Witness ==
    /\ pc \in { "s3_close", "s3_record" } /\ flow[Len(flow)].step = "submit"
    /\ site.submit.button = "found" /\ ~Fault("submit", persona_idx)
    /\ site.submit.content = "Check your inbox"
    /\ ~submit_result.success
    /\ "response_analysis" \in DOMAIN submit_result

\* C24: when the answer of the oracle to the deep page analysis is not valid
\* JSON, the analysis stored in the report is an empty result.
C24_MalformedIsEmpty ==
    (site.llm = "text" /\ << 1, "return" >> \in Range(stage_log)) =>
        DOMAIN exploration_report.main_page_analysis = {}

\* C25: a timeout of the network-idle wait after the navigation to an auth
\* link does not abandon the link: the registration form of the page the
\* browser has reached is still discovered.
C25_TimeoutProceeds ==
    \A k \in DOMAIN auth_links :
        ( /\ k < link_idx /\ k <= 3
          /\ Fault("link_wait", k) /\ ~Fault("link_goto", k)
          /\ \E i \in DOMAIN LinkForms(auth_links[k].href) :
                LinkForms(auth_links[k].href)[i] = RegForm )
        => \E i \in DOMAIN additional_forms :
              additional_forms[i].source_url = auth_links[k].href

\* C26: between two successive link navigations of the user-flow tracing a
\* delay elapses: each navigation starts later than the one before it.
C26_PolitenessDelay ==
    \A i \in DOMAIN visits :
        i > 1 => visits[i].at > visits[i - 1].at

\* C27: a field of type checkbox is given no value, whatever its name and
\* placeholder are.
C27_CheckboxNone ==
    \A k \in DOMAIN matched :
        matched[k].field_type = "checkbox" => matched[k].rule = None

\* C28: the run owns one browser session: it is started before stage 1 and
\* only when none exists, it is active at every step of every stage, and it
\* is closed when the run has ended, by a return or by an exception that
\* escaped a stage.
C28_OneSession ==
    /\ pc = "start" => session = "none"
    /\ stage_log # << >> => session # "none"
    /\ pc \notin { "prompt", "call", "start", "done" } => session = "active"
    /\ (pc = "done" /\ stage_log # << >>) =>
          (session = "closed" /\ outcome \in { "returned", "raised" })

\* an exception escaped a later stage of a run that had used the browser,
\* and the session is closed
C28_Witness ==
    /\ outcome = "raised"
    /\ << 8, "return" >> \in Range(stage_log)
    /\ session = "closed"

\* C29: the purpose of a form is given by the first keyword group its text
\* (the form text and the nearby text, lowercased) matches, in the order
\* registration, login, contact, search, subscription, whatever later groups
\* and whatever fields it has; and the purpose is always one of registration,
\* login, contact, search, subscription, unknown.
C29_KeywordPriority ==
    \A n \in DOMAIN form_results :
       LET form   == FormOf(form_results[n])
           groups == << [ label |-> "registration", words |-> registration_keywords ],
                        [ label |-> "login", words |-> login_keywords ],
                        [ label |-> "contact",
                          words |-> { "contact", "message", "email us" } ],
                        [ label |-> "search", words |-> { "search" } ],
                        [ label |-> "subscription",
                          words |-> { "subscribe", "newsletter" } ] >>
       IN  /\ form_results[n].purpose \in
                 { "registration", "login", "contact", "search", "subscription",
                   "unknown" }
           /\ \A g \in DOMAIN groups :
                 ( /\ TextHas(form, groups[g].words)
                   /\ \A h \in 1 .. (g - 1) : ~TextHas(form, groups[h].words) )
                 => form_results[n].purpose = groups[g].label

\* a form with the two fields of a login form, whose text has a login and a
\* registration keyword, was classified registration
C29_Witness ==
    \E n \in DOMAIN form_results :
       /\ TextHas(FormOf(form_results[n]), login_keywords)
       /\ TextHas(FormOf(form_results[n]), registration_keywords)
       /\ Len(FormOf(form_results[n]).inputs) = 2
       /\ form_results[n].purpose = "registration"

\* C30: a form that no keyword and no placeholder rule decided and that has a
\* password-typed field and an email-typed or email-named field is a login
\* form exactly when it has exactly two fields and no registration indicator
\* (a confirm or repeat field, a name field, a phone field, a date or birth
\* field, agree or terms in the text), and a registration form when it has an
\* indicator or more than two fields.
C30_LoginThreshold ==
    \A n \in DOMAIN form_results :
       LET form    == FormOf(form_results[n])
           inputs  == form.inputs
           hint(i) == Lower(inputs[i].name \o " " \o inputs[i].placeholder)
           decided == \/ TextHas(form, registration_keywords \cup login_keywords)
                      \/ TextHas(form, { "contact", "message", "email us", "search",
                                         "subscribe", "newsletter" })
                      \/ \E i \in DOMAIN inputs :
                            AnyIn({ "create a password", "create password" },
                                  Lower(inputs[i].placeholder))
           applies == /\ ~decided
                      /\ \E i \in DOMAIN inputs : Lower(inputs[i].type) = "password"
                      /\ \E i \in DOMAIN inputs :
                            Lower(inputs[i].type) = "email" \/ Contains(hint(i), "email")
           indicator == \/ \E i \in DOMAIN inputs :
                              \/ AnyIn({ "confirm", "repeat", "first", "last", "name",
                                         "phone", "birth" }, hint(i))
                              \/ Lower(inputs[i].type) = "date"
                        \/ TextHas(form, { "agree", "terms" })
       IN  applies =>
             /\ form_results[n].purpose = "login"
                   <=> (Len(inputs) = 2 /\ ~indicator)
             /\ (indicator \/ Len(inputs) > 2)
                   => form_results[n].purpose = "registration"

\* C31 as stated: a form whose text matched no keyword and one of whose
\* placeholders has "create a password", "create your password" or "create
\* password" is classified registration, whatever its fields are.
C31_PlaceholderForces ==
    \A n \in DOMAIN form_results :
       LET form == FormOf(form_results[n]) IN
       ( /\ ~TextHas(form, registration_keywords \cup login_keywords)
         /\ ~TextHas(form, { "contact", "message", "email us", "search",
                             "subscribe", "newsletter" })
         /\ \E i \in DOMAIN form.inputs :
               AnyIn({ "create a password", "create your password", "create password" },
                     Lower(form.inputs[i].placeholder)) )
       => form_results[n].purpose = "registration"

\* C31: a form whose text matched no keyword and one of whose placeholders
\* has "create a password" or "create password" is classified registration,
\* whatever its fields are.
C31_TwoPhrasesForce ==
    \A n \in DOMAIN form_results :
       LET form == FormOf(form_results[n]) IN
       ( /\ ~TextHas(form, registration_keywords \cup login_keywords)
         /\ ~TextHas(form, { "contact", "message", "email us", "search",
                             "subscribe", "newsletter" })
         /\ \E i \in DOMAIN form.inputs :
               AnyIn({ "create a password", "create password" },
                     Lower(form.inputs[i].placeholder)) )
       => form_results[n].purpose = "registration"

\* a form without text, with an email field and a password field whose
\* placeholder is "Create a password", was classified registration: the field
\* analysis alone would have made it a login form
C31_Witness ==
    \E n \in DOMAIN form_results :
       LET form == FormOf(form_results[n]) IN
       /\ form.form_text = "" /\ form.nearby_text = ""
       /\ Len(form.inputs) = 2
       /\ form.inputs[2].placeholder = "Create a password"
       /\ form_results[n].purpose = "registration"

\* C32: the rule that gives a field its value is the first of the ordered
\* rules email, password (password_confirm when the hints have confirm or
\* repeat), username, first name, last name, name, phone, address, city,
\* country, company, age, zip whose keywords are in the hints (name, type
\* and placeholder); a field no rule matches gets the filler text when it is
\* a text field without a name and nothing otherwise (seen when a fill call
\* of stage 3 or 4 has matched the fields of its form); and a field that got
\* nothing is neither filled nor reported as an error.
C32_FirstRuleWins ==
    LET rules ==
          << [ words |-> { "email", "e-mail" }, slot |-> "email" ],
             [ words |-> { "password", "pass" }, slot |-> "password" ],
             [ words |-> { "username", "user", "login" }, slot |-> "username" ],
             [ words |-> { "first", "fname" }, slot |-> "first_name" ],
             [ words |-> { "last", "lname", "surname" }, slot |-> "last_name" ],
             [ words |-> { "name" }, slot |-> "name" ],
             [ words |-> { "phone", "tel" }, slot |-> "phone" ],
             [ words |-> { "address" }, slot |-> "address" ],
             [ words |-> { "city" }, slot |-> "city" ],
             [ words |-> { "country" }, slot |-> "country" ],
             [ words |-> { "company", "organization" }, slot |-> "company" ],
             [ words |-> { "age" }, slot |-> "age" ],
             [ words |-> { "zip", "postal" }, slot |-> "zip" ] >>
        hints(m) == m.field_name \o " " \o m.field_type \o " " \o m.placeholder
        hits(m)  == { g \in DOMAIN rules : AnyIn(rules[g].words, hints(m)) }
        first(m) == CHOOSE g \in hits(m) : \A h \in hits(m) : g <= h
        expected(m) ==
            IF hits(m) = {}
            THEN IF m.field_type = "text" /\ m.field_name = "" THEN "Test input" ELSE None
            ELSE IF rules[first(m)].slot = "password" /\ AnyIn({ "confirm", "repeat" }, hints(m))
            THEN "password_confirm"
            ELSE rules[first(m)].slot
    IN  /\ pc \in { "s3_submit", "s3_form", "s4_form" } =>
              \A k \in DOMAIN matched : matched[k].rule = expected(matched[k])
        /\ (pc = "s4_form" /\ form_results # << >>) =>
              LET result == form_results[Len(form_results)].fill_result
                  valued == { matched[k].field_name :
                                k \in { j \in DOMAIN matched : matched[j].rule # None } }
              IN  /\ \A i \in DOMAIN result.filled_fields :
                        result.filled_fields[i].field \in valued
                  /\ \A i \in DOMAIN result.errors : result.errors[i] \in valued

\* the fields of the profile form were matched: user_email by the email rule,
\* company_name by the name rule, zip_city by the city rule, the nameless
\* text field by the filler, and q and the search field by no rule
C32_Witness ==
    /\ pc = "s4_form" /\ form_results # << >>
    /\ Len(matched) = 14
    /\ matched[1].rule = "email" /\ matched[6].rule = "name"
    /\ matched[8].rule = "city" /\ matched[12].rule = "Test input"
    /\ matched[13].rule = None /\ matched[14].rule = None
    /\ Len(form_results[Len(form_results)].fill_result.filled_fields) = 12

\* C33: in the discovery a mode switch is looked for or clicked only when the
\* forms the modal shows after the trigger click hold a login form and no
\* registration form.
C33_SwitchOnlyForLogin ==
    \A i \in DOMAIN search_flow :
       search_flow[i].step \in { "switch_eval", "switch" } =>
          /\ \E j \in DOMAIN site.modal_forms :
                _classify_form_purpose(site.modal_forms[j]) = "login"
          /\ \A j \in DOMAIN site.modal_forms :
                _classify_form_purpose(site.modal_forms[j]) # "registration"

\* C34: when the resolution of the mode switch in a registration attempt
\* ends, clicked or not, the attempt goes on with the same form to the test
\* data and the fill, and the wait of 2000 ms after the switch is made
\* exactly when the switch was clicked.
C34_SwitchFailureGoesOn ==
    [][ (pc = "resolve" /\ r_ctx = "switch" /\ pc' # "resolve") =>
          /\ pc' = "s3_fill"
          /\ rf_idx' = rf_idx
          /\ outcome' = "running"
          /\ now' = now + (IF button_clicked THEN 2000 ELSE 0) ]_vars

\* no selector of the mode switch could be clicked, and the form was filled
\* and submitted all the same
C34_Witness ==
    \E i \in DOMAIN flow :
       /\ flow[i].step = "switch" /\ ~flow[i].ok
       /\ i + 2 <= Len(flow)
       /\ flow[i + 1].step = "fill" /\ flow[i + 1].form = flow[i].form
       /\ flow[i + 2].step = "submit"

\* C35: the close attempt after the submit of a modal form never ends the
\* attempt: a close control is clicked only when one was found, the wait of
\* 1000 ms is made only after a click that did not raise, and whatever the
\* query or the click did, the attempt returns the record built from the fill
\* and submit results as they were before the close attempt.
C35_CloseBestEffort ==
    [][ /\ pc = "s3_close" =>
            /\ pc' = "s3_record" /\ outcome' = "running"
            /\ rf_idx' = rf_idx /\ persona_idx' = persona_idx
            /\ fill_result' = fill_result /\ submit_result' = submit_result
            /\ flow'[Len(flow')].ok = (site.close_el = "found")
            /\ now' = now + (IF site.close_el = "found" /\ ~Fault("close_click", 0)
                             THEN 1000 ELSE 0)
        /\ (pc = "s3_record" /\ flow[Len(flow)].step = "close") =>
            /\ Len(registration_result') = 1
            /\ registration_result'[1].fill_result = fill_result
            /\ registration_result'[1].submit_result = submit_result
            /\ registration_result'[1].form_url = "modal_window" ]_vars

\* a record returned after a close attempt whose query or click raised
C35_Witness ==
    /\ pc = "s3_append" /\ registration_result # << >>
    /\ flow[Len(flow)].step = "close"
    /\ \/ site.close_el = "raises"
       \/ site.close_el = "found" /\ Fault("close_click", 0)

\* C36: while stage 4 runs, the entries made so far are those of the forms
\* of the main-page snapshot already visited, in snapshot order and numbered
\* 1, 2, ...; once the stage has returned, form_interactions has one entry
\* per snapshot form, numbered 1..n, whatever the purpose of a form and
\* whether or not a field of it was filled.
C36_OneEntryPerForm ==
    LET about(entries, k) ==
            \A i \in 1..k :
               /\ entries[i].form_index = i
               /\ entries[i].inputs_count = Len(main_page.forms[i].inputs)
               /\ entries[i].purpose = _classify_form_purpose(main_page.forms[i])
    IN  /\ pc = "s4_form" =>
            /\ Len(form_results) = form_idx - 1
            /\ form_idx - 1 <= Len(main_page.forms)
            /\ about(form_results, form_idx - 1)
        /\ StageReturned(4) =>
            /\ Len(exploration_report.form_interactions) = Len(main_page.forms)
            /\ about(exploration_report.form_interactions, Len(main_page.forms))

\* stage 4 returned for a snapshot of several forms of different purposes,
\* one of which had no field filled
C36_Witness ==
    /\ StageReturned(4)
    /\ Len(main_page.forms) >= 2
    /\ \E i, j \in DOMAIN exploration_report.form_interactions :
          /\ exploration_report.form_interactions[i].purpose
             # exploration_report.form_interactions[j].purpose
          /\ ~exploration_report.form_interactions[i].fill_result.success
          /\ exploration_report.form_interactions[j].fill_result.success

\* C37: in a registration attempt the submit follows a fill exactly when the
\* fill reported success, the fill reports success exactly when a field of
\* the form got a value on the page, and a record is returned and kept in
\* registration_attempts only after a successful fill: an attempt in which
\* no fill succeeded returns nothing and has no submit.
C37_SubmitIffFilled ==
    LET got_value(f) ==
            /\ Truthy(_match_field_to_data(Lower(f.name), Lower(f.type),
                                           Lower(f.placeholder), test_data))
            /\ (IF f.name # "" THEN f.name ELSE Lower(f.type))
                  \notin (site.fill_absent \cup site.fill_raises)
    IN  /\ \A i \in DOMAIN flow :
              /\ flow[i].step = "submit" =>
                    /\ i > 1
                    /\ flow[i - 1] = [ step |-> "fill", form |-> flow[i].form, ok |-> TRUE ]
              /\ flow[i].step = "fill" =>
                    (flow[i].ok <=> IF i < Len(flow) THEN flow[i + 1].step = "submit"
                                    ELSE pc = "s3_submit")
        /\ (pc \in { "s3_submit", "s3_form" } /\ flow # << >>
               /\ flow[Len(flow)].step = "fill") =>
              (flow[Len(flow)].ok <=>
                 \E k \in DOMAIN registration_forms[flow[Len(flow)].form].form.inputs :
                    got_value(registration_forms[flow[Len(flow)].form].form.inputs[k]))
        /\ (pc = "s3_append" /\ registration_result # << >>) =>
              \E i \in DOMAIN flow : flow[i].step = "fill" /\ flow[i].ok
        /\ \A i \in DOMAIN exploration_report.registration_attempts :
              exploration_report.registration_attempts[i].fill_result.success

\* an attempt on a registration form none of whose fields could be filled:
\* no submit, nothing returned
C37_Witness ==
    /\ pc = "s3_append" /\ registration_result = << >>
    /\ \E i \in DOMAIN flow : flow[i].step = "fill" /\ ~flow[i].ok
    /\ \A i \in DOMAIN flow : flow[i].step # "submit"

\* C38: once the discovery has gone on from a signup button whose trigger
\* click succeeded, to the next button or to the auth links, a close attempt
\* has been made for that button, also when the scan after the click found
\* no form.
C38_CloseBeforeNextTrigger ==
    \A i \in DOMAIN search_flow :
       (search_flow[i].step = "trigger" /\ search_flow[i].ok
          /\ btn_idx > search_flow[i].button) =>
          \E k \in DOMAIN search_flow :
             /\ k > i
             /\ search_flow[k].step = "close"
             /\ search_flow[k].button = search_flow[i].button

\* C39: every step of stage 4 leaves the page where it is: the URL of the
\* session does not change, nothing is submitted, no trigger or switch is
\* resolved and no link is visited, for every number and kind of forms.
C39_FillOnly ==
    [][ (pc = "s4_begin" \/ pc = "s4_form") =>
          /\ page_url' = page_url
          /\ submit_result' = submit_result
          /\ flow' = flow /\ search_flow' = search_flow
          /\ visits' = visits
          /\ (pc' = "s4_form" \/ pc' = Continue(4)) ]_vars

\* stage 4 returned after filling fields of a form on a page whose submit
\* would have led elsewhere
C39_Witness ==
    /\ StageReturned(4)
    /\ \E i \in DOMAIN exploration_report.form_interactions :
          exploration_report.form_interactions[i].fill_result.success
    /\ site.submit.button = "found" /\ site.submit.new_url # None
    /\ site.submit.new_url # page_url

====
